---- MODULE Spec2Model ----
(***************************************************************************)
(* Model of the marcus test runner: the per-test execution engine          *)
(* (runTest in http.go: interpolation, retry/poll loop, validation, save)  *)
(* and the sequential / parallel schedulers that drive it.                 *)
(* The parser (parser.go: frontmatter, test blocks, assertions) is modelled *)
(* as functions of the text of a file.                                     *)
(*                                                                         *)
(* Strings are sequences of one-character strings, so that interpolation,  *)
(* dot-path splitting and value rendering are computed, not assumed.       *)
(***************************************************************************)
EXTENDS Integers, Sequences, FiniteSets, TLC

(***************************************************************************)
(* Bounds of the model.                                                    *)
(***************************************************************************)
MaxFiles == 2
MaxTests == 3
MaxSeqTests == 3
MaxJobs == 2
MaxWorkers == 2
MaxRetry == 3
MaxFmLines == 3
MaxOptLines == 3
MaxAssertItems == 3
MaxPieces == 2
MaxSegments == 3
MaxMembers == 2
MaxBlockLines == 2
MaxOver == 3
MaxClock == 2
MaxTimedTests == 2
MaxHeaderLines == 2
MaxOnly == 3

(***************************************************************************)
(* String helpers (Go: strings package).                                   *)
(***************************************************************************)
HasPrefix(s, p) == Len(s) >= Len(p) /\ SubSeq(s, 1, Len(p)) = p

HasSuffix(s, p) == Len(s) >= Len(p) /\ SubSeq(s, Len(s) - Len(p) + 1, Len(s)) = p

RECURSIVE ReplaceAll(_, _, _)
ReplaceAll(s, old, new) ==
    IF Len(s) < Len(old) THEN s
    ELSE IF SubSeq(s, 1, Len(old)) = old
         THEN new \o ReplaceAll(SubSeq(s, Len(old) + 1, Len(s)), old, new)
         ELSE <<s[1]>> \o ReplaceAll(Tail(s), old, new)

\* strings.Split(s, sep) for a one-character separator
RECURSIVE SplitOn(_, _)
SplitOn(s, c) ==
    IF \A i \in 1..Len(s) : s[i] # c THEN <<s>>
    ELSE LET i == CHOOSE j \in 1..Len(s) :
                      s[j] = c /\ \A m \in 1..(j - 1) : s[m] # c
         IN  <<SubSeq(s, 1, i - 1)>> \o SplitOn(SubSeq(s, i + 1, Len(s)), c)

\* strings.Trim(s, cutset) for a one-character cutset
RECURSIVE TrimLeftChar(_, _)
TrimLeftChar(s, c) ==
    IF Len(s) > 0 /\ s[1] = c THEN TrimLeftChar(Tail(s), c) ELSE s

RECURSIVE TrimRightChar(_, _)
TrimRightChar(s, c) ==
    IF Len(s) > 0 /\ s[Len(s)] = c
    THEN TrimRightChar(SubSeq(s, 1, Len(s) - 1), c) ELSE s

TrimChar(s, c) == TrimRightChar(TrimLeftChar(s, c), c)

DigitChars == <<"0", "1", "2", "3", "4", "5", "6", "7", "8", "9">>

IsDigit(c) == \E d \in 1..10 : DigitChars[d] = c

DigitVal(c) == (CHOOSE d \in 1..10 : DigitChars[d] = c) - 1

\* the decimal rendering of a natural number (fmt verb %d / %v)
RECURSIVE Digits(_)
Digits(n) ==
    IF n < 10 THEN <<DigitChars[n + 1]>>
    ELSE Digits(n \div 10) \o <<DigitChars[(n % 10) + 1]>>

RECURSIVE DigitsVal(_)
DigitsVal(s) ==
    IF Len(s) = 0 THEN 0
    ELSE 10 * DigitsVal(SubSeq(s, 1, Len(s) - 1)) + DigitVal(s[Len(s)])

AllDigits(s) == Len(s) > 0 /\ \A i \in 1..Len(s) : IsDigit(s[i])

(***************************************************************************)
(* Go values held in interface{}: the dynamic type is the field k.         *)
(* JSON numbers decode to float64; parseExpectedValue yields int64.        *)
(***************************************************************************)
VFloat(n) == [k |-> "float64", n |-> n]
VInt(n) == [k |-> "int64", n |-> n]
VStr(s) == [k |-> "string", s |-> s]
VBool(b) == [k |-> "bool", b |-> b]
VNil == [k |-> "nil"]
VObj(f) == [k |-> "map", f |-> f]
VArr(a) == [k |-> "slice", a |-> a]

\* a nil map[string]interface{} (response body that is not a JSON object)
NilJSON == [k |-> "nilmap"]

s_true == <<"t", "r", "u", "e">>
s_false == <<"f", "a", "l", "s", "e">>
s_nil == <<"<", "n", "i", "l", ">">>

\* the characters of the model in byte order
ByteOrder ==
    <<" ", "\"", ",", "-", ".", "0", "1", "2", "3", "4", "5", "6", "7", "8", "9",
      ":", "<", ">", "A", "B", "C", "D", "E", "F", "G", "H", "I", "J", "K", "L",
      "M", "N", "O", "P", "Q", "R", "S", "T", "U", "V", "W", "X", "Y", "Z", "[",
      "]", "a", "b", "c", "d", "e", "f", "g", "h", "i", "j", "k", "l", "m", "n",
      "o", "p", "q", "r", "s", "t", "u", "v", "w", "x", "y", "z", "{", "}">>

ByteRank(c) == CHOOSE i \in 1..Len(ByteOrder) : ByteOrder[i] = c

\* a < b for Go strings (byte-wise)
RECURSIVE StrLess(_, _)
StrLess(a, b) ==
    IF Len(b) = 0 THEN FALSE
    ELSE IF Len(a) = 0 THEN TRUE
    ELSE IF a[1] # b[1] THEN ByteRank(a[1]) < ByteRank(b[1])
    ELSE StrLess(Tail(a), Tail(b))

\* the keys of a map in sorted order (fmt prints maps, and encoding/json
\* marshals them, with sorted keys)
RECURSIVE SortedKeys(_)
SortedKeys(S) ==
    IF S = {} THEN <<>>
    ELSE LET k == CHOOSE x \in S : \A y \in S \ {x} : StrLess(x, y)
         IN  <<k>> \o SortedKeys(S \ {k})

\* the members of a sequence of strings with sep between them
RECURSIVE JoinWith(_, _)
JoinWith(ss, sep) ==
    IF Len(ss) = 0 THEN <<>>
    ELSE IF Len(ss) = 1 THEN ss[1]
    ELSE ss[1] \o sep \o JoinWith(Tail(ss), sep)

\* fmt.Sprintf("%v", v): scalars as their text, a slice as [e1 e2], a map
\* as map[k1:v1 k2:v2] with sorted keys
RECURSIVE Sprintf(_)
Sprintf(v) ==
    CASE v.k = "string" -> v.s
      [] v.k = "bool" -> IF v.b THEN s_true ELSE s_false
      [] v.k = "nil" -> s_nil
      [] v.k \in {"float64", "int64"} ->
            IF v.n < 0 THEN <<"-">> \o Digits(0 - v.n) ELSE Digits(v.n)
      [] v.k = "slice" ->
            <<"[">> \o JoinWith([i \in 1..Len(v.a) |-> Sprintf(v.a[i])], <<" ">>) \o <<"]">>
      [] v.k = "map" ->
            LET ks == SortedKeys(DOMAIN v.f)
            IN  <<"m", "a", "p", "[">>
                \o JoinWith([i \in 1..Len(ks) |-> ks[i] \o <<":">> \o Sprintf(v.f[ks[i]])], <<" ">>)
                \o <<"]">>

(***************************************************************************)
(* http.go helpers.                                                        *)
(***************************************************************************)
\* getJSONField: walk the dot path through nested JSON objects
RECURSIVE Traverse(_, _, _)
Traverse(current, parts, path) ==
    IF Len(parts) = 0 THEN [ok |-> TRUE, v |-> current, e |-> "none"]
    ELSE IF current.k = "map"
         THEN IF parts[1] \in DOMAIN current.f
              THEN Traverse(current.f[parts[1]], Tail(parts), path)
              ELSE [ok |-> FALSE, v |-> VNil, e |-> "not found"]
         ELSE IF current.k = "nilmap"
              THEN [ok |-> FALSE, v |-> VNil, e |-> "not found"]
              ELSE [ok |-> FALSE, v |-> VNil, e |-> "cannot traverse"]

\* variant: a numeric segment indexes into an array
RECURSIVE Traverse_IndexArrays(_, _, _)
Traverse_IndexArrays(current, parts, path) ==
    IF Len(parts) = 0 THEN [ok |-> TRUE, v |-> current, e |-> "none"]
    ELSE IF current.k = "map"
         THEN IF parts[1] \in DOMAIN current.f
              THEN Traverse_IndexArrays(current.f[parts[1]], Tail(parts), path)
              ELSE [ok |-> FALSE, v |-> VNil, e |-> "not found"]
         ELSE IF current.k = "slice" /\ AllDigits(parts[1])
                 /\ DigitsVal(parts[1]) < Len(current.a)
              THEN Traverse_IndexArrays(current.a[DigitsVal(parts[1]) + 1], Tail(parts), path)
              ELSE IF current.k = "nilmap"
                   THEN [ok |-> FALSE, v |-> VNil, e |-> "not found"]
                   ELSE [ok |-> FALSE, v |-> VNil, e |-> "cannot traverse"]

getJSONField_IndexArrays(data, path) == Traverse_IndexArrays(data, SplitOn(path, "."), path)

getJSONField(data, path) == Traverse(data, SplitOn(path, "."), path)

\* strconv.ParseInt(value, 10, 64): optional sign, then decimal digits
ParseIntOK(s) ==
    \/ AllDigits(s)
    \/ Len(s) > 1 /\ s[1] \in {"+", "-"} /\ AllDigits(Tail(s))

ParseIntVal(s) ==
    IF s[1] = "-" THEN 0 - DigitsVal(Tail(s))
    ELSE IF s[1] = "+" THEN DigitsVal(Tail(s))
    ELSE DigitsVal(s)

\* parseExpectedValue: quoted string, boolean, integer, else the text itself
\* (the float branch is reached only by texts with '.', 'e', "inf" or "nan",
\* which the value texts of the model do not contain)
parseExpectedValue(value) ==
    IF HasPrefix(value, <<"\"">>) /\ HasSuffix(value, <<"\"">>)
    THEN VStr(TrimChar(value, "\""))
    ELSE IF value = s_true THEN VBool(TRUE)
    ELSE IF value = s_false THEN VBool(FALSE)
    ELSE IF ParseIntOK(value) THEN VInt(ParseIntVal(value))
    ELSE VStr(value)

\* Go's == on two interface values: same dynamic type and same value
DirectEq(a, b) == a.k = b.k /\ a = b

valuesEqual(actual, expected) ==
    \/ DirectEq(actual, expected)
    \/ Sprintf(actual) = Sprintf(expected)

Placeholder(name) == <<"{", "{">> \o name \o <<"}", "}">>

\* interpolateVariables, visiting the store in the order given
\* (Go's map iteration order is unspecified)
RECURSIVE InterpolateOrder(_, _, _)
InterpolateOrder(s, vars, order) ==
    IF Len(order) = 0 THEN s
    ELSE InterpolateOrder(
             ReplaceAll(s, Placeholder(order[1]), Sprintf(vars[order[1]])),
             vars, Tail(order))

Orders(S) ==
    {o \in [1..Cardinality(S) -> S] :
        \A i, j \in 1..Cardinality(S) : i # j => o[i] # o[j]}

\* variant: no placeholder is replaced
interpolateVariables_Identity(s, vars) == {s}

\* every result interpolateVariables(s, vars) can return
interpolateVariables(s, vars) ==
    {InterpolateOrder(s, vars, o) : o \in Orders(DOMAIN vars)}

\* http.NewRequest fails when url.Parse rejects the target; the case the
\* model covers is an invalid percent escape ('%' not followed by two hex
\* digits)
IsHex(c) == IsDigit(c) \/ c \in {"a", "b", "c", "d", "e", "f", "A", "B", "C", "D", "E", "F"}

NewRequestFails(url) ==
    \E i \in 1..Len(url) :
        /\ url[i] = "%"
        /\ ~(i + 2 <= Len(url) /\ IsHex(url[i + 1]) /\ IsHex(url[i + 2]))

\* strconv.Atoi on a status text
AtoiOK(s) == ParseIntOK(s)

\* validateAssertion for the assertion kinds of the model: "ok" or the
\* kind of failure
validateAssertion(assertion, statusCode, jsonBody) ==
    CASE assertion.Type = "status" ->
            IF ~AtoiOK(assertion.Value) THEN "invalid status code"
            ELSE IF statusCode # ParseIntVal(assertion.Value)
                 THEN "status assertion failed"
                 ELSE "ok"
      [] assertion.Type = "body_contains" ->
            IF jsonBody.k = "nilmap" THEN "body contains assertion failed"
            ELSE IF assertion.Field \notin DOMAIN jsonBody.f
                 THEN "body contains assertion failed"
                 ELSE "ok"
      [] assertion.Type = "field_equals" ->
            IF jsonBody.k = "nilmap" THEN "field equals assertion failed"
            ELSE LET got == getJSONField(jsonBody, assertion.Field)
                 IN  IF ~got.ok THEN "field equals assertion failed"
                     ELSE IF ~valuesEqual(got.v, parseExpectedValue(assertion.Value))
                          THEN "field equals assertion failed"
                          ELSE "ok"
      [] OTHER -> "ok"

\* variant: every assertion is evaluated and the last failure is reported
RECURSIVE RunAssertions_All(_, _, _, _)
RunAssertions_All(assertions, from, statusCode, jsonBody) ==
    IF from > Len(assertions) THEN [err |-> "ok", evals |-> <<>>]
    ELSE LET e == validateAssertion(assertions[from], statusCode, jsonBody)
             rest == RunAssertions_All(assertions, from + 1, statusCode, jsonBody)
         IN  [err |-> IF rest.err # "ok" THEN rest.err ELSE e,
              evals |-> <<from>> \o rest.evals]

\* the loop over test.Assertions (http.go:146-150) from index from on: the
\* error it returns ("ok": none) and the indices of the assertions it handed
\* to validateAssertion, in the order of the calls
RECURSIVE RunAssertions(_, _, _, _)
RunAssertions(assertions, from, statusCode, jsonBody) ==
    IF from > Len(assertions) THEN [err |-> "ok", evals |-> <<>>]
    ELSE LET e == validateAssertion(assertions[from], statusCode, jsonBody)
         IN  IF e # "ok" THEN [err |-> e, evals |-> <<from>>]
             ELSE LET rest == RunAssertions(assertions, from + 1, statusCode, jsonBody)
                  IN  [err |-> rest.err, evals |-> <<from>> \o rest.evals]

\* the error of the loop over test.Assertions: the first failure returns
ValidateAll(assertions, statusCode, jsonBody) ==
    RunAssertions(assertions, 1, statusCode, jsonBody).err

\* the assertions the loop evaluated
EvaluatedBy(assertions, statusCode, jsonBody) ==
    RunAssertions(assertions, 1, statusCode, jsonBody).evals

\* the loop over test.SaveFields (http.go:153-159): each directive writes
\* into the map it was handed; the first extraction failure returns
RECURSIVE SaveAll(_, _, _)
SaveAll(saveFields, jsonBody, vars) ==
    IF Len(saveFields) = 0 THEN [err |-> "none", vars |-> vars]
    ELSE LET got == getJSONField(jsonBody, saveFields[1].Field)
         IN  IF ~got.ok THEN [err |-> "save field failed", vars |-> vars]
             ELSE SaveAll(Tail(saveFields), jsonBody,
                          (saveFields[1].Variable :> got.v) @@ vars)

DefaultRetryMax == 10

\* retryMax := test.RetryMax; if retryMax == 0 { retryMax = 10 }
RetryMaxOf(test) == IF test.RetryMax = 0 THEN DefaultRetryMax ELSE test.RetryMax

\* variant: the limit is tested one attempt late
AttemptsExhausted_Late(attempt, retryMax) == attempt > retryMax

\* the retry decision of both wait branches: attempt >= retryMax
AttemptsExhausted(attempt, retryMax) == attempt >= retryMax

(***************************************************************************)
(* Inputs: test definitions, variable stores and scripted responses.       *)
(***************************************************************************)
EmptyMap == <<>>

s_id == <<"i", "d">>
s_x == <<"x">>
s_json == <<"j", "s", "o", "n">>
s_json_id == <<"j", "s", "o", "n", ".", "i", "d">>
s_json_x == <<"j", "s", "o", "n", ".", "x">>
s_200 == <<"2", "0", "0">>
s_7 == <<"7">>
s_8 == <<"8">>
h_XId == <<"X", "-", "I", "d">>
u_plain == <<"/", "a">>
u_use == <<"/", "u", "/", "{", "{", "i", "d", "}", "}">>
u_bad == <<"/", "%">>
t_use == <<"{", "{", "i", "d", "}", "}">>

\* a Test as parseTestBlock leaves it (part_001:56-71)
BaseTest ==
    [Name |-> "plain", Method |-> "GET", URL |-> u_plain, Headers |-> EmptyMap,
     Body |-> <<>>, ContentType |-> <<>>,
     Assertions |-> <<[Type |-> "status", Field |-> <<>>, Value |-> s_200]>>,
     SaveFields |-> <<>>,
     WaitForStatus |-> 0, WaitForField |-> <<>>, WaitForValue |-> <<>>,
     RetryDelay |-> 0, RetryMax |-> 0]

SaveId == [Field |-> s_json_id, Variable |-> s_id]
SaveX == [Field |-> s_json_x, Variable |-> s_x]

TestIds ==
    {[n |-> nm, m |-> 0] : nm \in {"plain", "saveId", "useId", "save2", "badurl", "timed"}}
    \cup {[n |-> nm, m |-> m] : nm \in {"waitStatus", "waitField", "waitBoth"},
                                m \in 0..MaxRetry}
    \cup {[n |-> "retryOnly", m |-> m] : m \in 1..MaxRetry}
    \cup {[n |-> "waitChecks", m |-> 2]}

\* the test definition named by an id; m is the count of its Retry directive
\* (0: no directive)
TestOf(id) ==
    CASE id.n = "plain" -> BaseTest
      [] id.n = "saveId" ->
            [BaseTest EXCEPT !.Name = id.n, !.SaveFields = <<SaveId>>]
      [] id.n = "save2" ->
            [BaseTest EXCEPT !.Name = id.n, !.SaveFields = <<SaveId, SaveX>>]
      [] id.n = "useId" ->
            [BaseTest EXCEPT !.Name = id.n, !.URL = u_use, !.Body = t_use,
                             !.Headers = (h_XId :> t_use),
                             !.Assertions = <<[Type |-> "status", Field |-> <<>>, Value |-> s_200],
                                              [Type |-> "field_equals", Field |-> s_json_id, Value |-> s_7]>>]
      [] id.n = "badurl" -> [BaseTest EXCEPT !.Name = id.n, !.URL = u_bad]
      [] id.n = "timed" -> [BaseTest EXCEPT !.Name = id.n]
      [] id.n = "retryOnly" ->
            [BaseTest EXCEPT !.Name = id.n, !.RetryMax = id.m, !.RetryDelay = 500]
      [] id.n = "waitStatus" ->
            [BaseTest EXCEPT !.Name = id.n, !.WaitForStatus = 200,
                             !.RetryMax = id.m, !.SaveFields = <<SaveId>>]
      [] id.n = "waitField" ->
            [BaseTest EXCEPT !.Name = id.n, !.WaitForField = s_json_id,
                             !.WaitForValue = s_7, !.RetryMax = id.m]
      [] id.n = "waitBoth" ->
            [BaseTest EXCEPT !.Name = id.n, !.WaitForStatus = 200,
                             !.WaitForField = s_json_id, !.WaitForValue = s_7,
                             !.RetryMax = id.m, !.SaveFields = <<SaveId>>]
      [] id.n = "waitChecks" ->
            [BaseTest EXCEPT !.Name = id.n, !.WaitForField = s_json_id,
                             !.WaitForValue = s_7, !.RetryMax = id.m,
                             !.Assertions = <<[Type |-> "status", Field |-> <<>>, Value |-> s_200],
                                              [Type |-> "field_equals", Field |-> s_json_id, Value |-> s_8],
                                              [Type |-> "body_contains", Field |-> s_json, Value |-> <<>>]>>]

JsonId(v) == VObj(s_json :> VObj(s_id :> v))

\* scripted responses: status code and decoded JSON body
Responses ==
    {[status |-> 200, json |-> JsonId(VFloat(7))],
     [status |-> 200, json |-> JsonId(VFloat(8))],
     [status |-> 500, json |-> JsonId(VFloat(7))],
     [status |-> 500, json |-> NilJSON],
     [status |-> 200, json |-> VObj(s_json :> VObj((s_id :> VStr(s_7)) @@ (s_x :> VBool(TRUE))))]}

NoResp == [status |-> 0, json |-> NilJSON]

\* what one client.Do / io.ReadAll can yield
Outcomes ==
    {[kind |-> "response", resp |-> r] : r \in Responses}
    \cup {[kind |-> "request failed", resp |-> NoResp],
          [kind |-> "failed to read response", resp |-> NoResp]}

\* the outcomes scripted when whole files are run: the first two responses,
\* the non-JSON 500 and a transport failure
SchedOutcomes ==
    {o \in Outcomes :
        \/ o.kind = "request failed"
        \/ o.kind = "response" /\ o.resp.json = JsonId(VFloat(7)) /\ o.resp.status = 200
        \/ o.kind = "response" /\ o.resp.json = JsonId(VFloat(8))
        \/ o.kind = "response" /\ o.resp.json = NilJSON}

\* the outcome scripted for the tests whose duration is measured: the
\* first response
TimedOutcomes ==
    {o \in Outcomes :
        o.kind = "response" /\ o.resp.json = JsonId(VFloat(7)) /\ o.resp.status = 200}

\* stores handed to a direct call of runTest
InitialStores == {EmptyMap, (s_id :> VFloat(8)), (s_id :> VStr(s_7)) @@ (s_x :> VNil)}

(***************************************************************************)
(* State.                                                                  *)
(***************************************************************************)
VARIABLES
    mode,        \* "run": one direct call of runTest; "seq"; "par"
    testFiles,   \* the parsed files: a sequence of sequences of test ids
    maxWorkers,  \* runtime.NumCPU(), the capacity of sem
    job,         \* per flattened test: the state of its runTest call
    cur,         \* sequential runner: index of the next test to run
    sem,         \* number of permits taken from sem
    results,     \* parallel runner: the results slice
    writes,      \* history: <<job, slot>> for every write into results, in order
    passed,
    failed,
    printed,     \* the result lines in the order they were written
    mainpc,      \* the runner itself: "run" or "done"
    parseIn,     \* "parse": the call of a parser function: its name and arguments
    parseOut,    \* "parse": what the call returned (NoOutput before it)
    timing,      \* the clock and what the runners measured with it
    quiet        \* the runners' quiet argument (--quiet)

vars == <<mode, testFiles, maxWorkers, job, cur, sem, results, writes,
          passed, failed, printed, mainpc, parseIn, parseOut, timing, quiet>>

\* the flat job list of runTestsParallel (part_008:82-92); the sequential
\* runner visits the tests in the same order
RECURSIVE FlattenFrom(_, _)
FlattenFrom(tf, fi) ==
    IF fi > Len(tf) THEN <<>>
    ELSE [ti \in 1..Len(tf[fi]) |->
             [fileIndex |-> fi, testIndex |-> ti, test |-> tf[fi][ti]]]
         \o FlattenFrom(tf, fi + 1)

Jobs == FlattenFrom(testFiles, 1)

N == Len(Jobs)

TestAt(i) == TestOf(Jobs[i].test)

NoReq == [URL |-> <<>>, Headers |-> EmptyMap, Body |-> <<>>]

NoResult == [Index |-> 0, FileIndex |-> 0, Err |-> "unset"]

\* a call of runTest that has not been made yet: URL and Body are the
\* copies of the by-value Test argument, Headers is the map the definition
\* and the copy share
NewJob(id) ==
    [pc |-> "idle", attempt |-> 0, nreq |-> 0, sleeps |-> 0, slept |-> 0, firstSat |-> 0,
     partial |-> 0, evals |-> <<>>,
     err |-> "none", validated |-> NoResp,
     URL |-> TestOf(id).URL, Body |-> TestOf(id).Body,
     Headers |-> TestOf(id).Headers,
     vars |-> EmptyMap, vars0 |-> EmptyMap, req |-> NoReq]

s_ContentType == <<"C", "o", "n", "t", "e", "n", "t", "-", "T", "y", "p", "e">>

UpperChars == <<"A", "B", "C", "D", "E", "F", "G", "H", "I", "J", "K", "L", "M", "N", "O", "P", "Q", "R", "S", "T", "U", "V", "W", "X", "Y", "Z">>

LowerChars == <<"a", "b", "c", "d", "e", "f", "g", "h", "i", "j", "k", "l", "m", "n", "o", "p", "q", "r", "s", "t", "u", "v", "w", "x", "y", "z">>

\* case folding of one character ((?i), strings.EqualFold)
Lower(c) ==
    IF \E i \in 1..26 : UpperChars[i] = c
    THEN LowerChars[CHOOSE i \in 1..26 : UpperChars[i] = c]
    ELSE c

Upper(c) ==
    IF \E i \in 1..26 : LowerChars[i] = c
    THEN UpperChars[CHOOSE i \in 1..26 : LowerChars[i] = c]
    ELSE c

\* the characters of a header name the canonical form is defined on:
\* letters, digits and the punctuation of the model's names
IsTokenChar(c) ==
    \/ \E i \in 1..26 : UpperChars[i] = c \/ LowerChars[i] = c
    \/ c \in {"0", "1", "2", "3", "4", "5", "6", "7", "8", "9", "-", "_", "."}

\* textproto.CanonicalMIMEHeaderKey, the key http.Header.Set stores under:
\* the first letter and every letter after a hyphen in capitals, the others
\* in lower case; a name that holds another character is left as it is
CanonicalKey(k) ==
    IF \E i \in 1..Len(k) : ~IsTokenChar(k[i]) THEN k
    ELSE [i \in 1..Len(k) |->
             IF i = 1 \/ k[i - 1] = "-" THEN Upper(k[i]) ELSE Lower(k[i])]

\* req.Header.Set(key, value)
HeaderSet(h, key, value) == (CanonicalKey(key) :> value) @@ h

\* for key, value := range test.Headers { req.Header.Set(key, value) } with
\* the keys visited in one order (http.go:91-93)
RECURSIVE SetHeadersIn(_, _, _)
SetHeadersIn(order, headers, h) ==
    IF order = <<>> THEN h
    ELSE SetHeadersIn(Tail(order), headers, HeaderSet(h, order[1], headers[order[1]]))

\* the headers of the request of one attempt when the map is visited in
\* this order (http.go:91-97)
RequestHeadersIn(order, headers, contentType) ==
    LET set == SetHeadersIn(order, headers, EmptyMap)
    IN  IF contentType # <<>> THEN HeaderSet(set, s_ContentType, contentType)
        ELSE set

\* every header set the request of one attempt can carry: Go visits the map
\* in an unspecified order, and names with one canonical form overwrite
\* each other
RequestHeaderSets(headers, contentType) ==
    {RequestHeadersIn(o, headers, contentType) : o \in Orders(DOMAIN headers)}

\* the headers of the request of one attempt (http.go:91-97); the names of
\* the runner's tests have pairwise different canonical forms, so every
\* order gives this one set
RequestHeaders(headers, contentType) ==
    CHOOSE r \in RequestHeaderSets(headers, contentType) : TRUE

\* the claim-side reading of "the response satisfies the wait condition":
\* every configured condition holds of this one response
WaitSatisfied(test, r) ==
    /\ test.WaitForStatus # 0 => r.status = test.WaitForStatus
    /\ test.WaitForField # <<>> =>
          LET got == getJSONField(r.json, test.WaitForField)
          IN  got.ok /\ valuesEqual(got.v, parseExpectedValue(test.WaitForValue))

\* the response meets exactly one of the two configured wait conditions
MeetsOnlyOne(test, r) ==
    /\ test.WaitForStatus # 0
    /\ test.WaitForField # <<>>
    /\ ~WaitSatisfied(test, r)
    /\ \/ r.status = test.WaitForStatus
       \/ LET got == getJSONField(r.json, test.WaitForField)
          IN  got.ok /\ valuesEqual(got.v, parseExpectedValue(test.WaitForValue))

\* variant: every response without status 200 is retried
StatusUnmet_AnyFailure(test, r) == r.status # 200

\* http.go:117: a status is awaited and this response does not have it
StatusUnmet(test, r) ==
    test.WaitForStatus # 0 /\ r.status # test.WaitForStatus

\* variant: the field condition is not looked at
FieldUnmet_Skipped(test, r) == FALSE

\* http.go:130-133: a field is awaited and this response does not have it
\* with the awaited value
FieldUnmet(test, r) ==
    /\ test.WaitForField # <<>>
    /\ LET got == getJSONField(r.json, test.WaitForField)
       IN  \/ ~got.ok
           \/ ~valuesEqual(got.v, parseExpectedValue(test.WaitForValue))

\* runTest up to the loop (http.go:31-75): the states the call can be in
\* after interpolating URL, body and headers against the store it was given
EnterRunTest(j, store) ==
    {[j EXCEPT !.pc = "loop", !.vars = store, !.vars0 = store,
               !.URL = u, !.Body = b, !.Headers = h] :
        u \in interpolateVariables(j.URL, store),
        b \in interpolateVariables(j.Body, store),
        h \in {g \in [DOMAIN j.Headers -> UNION {interpolateVariables(j.Headers[k], store) : k \in DOMAIN j.Headers}] :
                  \A k \in DOMAIN j.Headers : g[k] \in interpolateVariables(j.Headers[k], store)}}

\* variant: the save directives run before the assertions are evaluated
ValidateAndSave_SaveFirst(j, test, r) ==
    LET checked == [j EXCEPT !.validated = r, !.pc = "ret",
                             !.evals = @ \o EvaluatedBy(test.Assertions, r.status, r.json)]
        sv == SaveAll(test.SaveFields, r.json, j.vars)
        e == ValidateAll(test.Assertions, r.status, r.json)
    IN  IF sv.err # "none" THEN [checked EXCEPT !.err = sv.err, !.vars = sv.vars]
        ELSE [checked EXCEPT !.err = IF e # "ok" THEN e ELSE "none", !.vars = sv.vars]

\* validation and save on the response that passed the wait checks
\* (http.go:145-161)
ValidateAndSave(j, test, r) ==
    LET checked == [j EXCEPT !.validated = r, !.pc = "ret",
                             !.evals = @ \o EvaluatedBy(test.Assertions, r.status, r.json)]
        e == ValidateAll(test.Assertions, r.status, r.json)
    IN  IF e # "ok" THEN [checked EXCEPT !.err = e]
        ELSE LET sv == SaveAll(test.SaveFields, r.json, j.vars)
             IN  [checked EXCEPT !.err = sv.err, !.vars = sv.vars]

\* one second, in milliseconds (http.go:45)
DefaultRetryDelay == 1000

\* retryDelay in milliseconds: test.RetryDelay, or one second when it is 0
\* (http.go:43-46)
RetryDelayOf(test) == IF test.RetryDelay = 0 THEN DefaultRetryDelay ELSE test.RetryDelay

\* variant: the loop goes round without sleeping
Retry_NoSleep(j, test) == j

\* time.Sleep(retryDelay); continue (http.go:121-122, 137-138)
Retry(j, test) ==
    [j EXCEPT !.sleeps = @ + 1, !.slept = @ + RetryDelayOf(test)]

\* one iteration of the for loop of runTest (http.go:77-162)
LoopIteration(j, test, out) ==
    LET attempt == j.attempt + 1
        retryMax == RetryMaxOf(test)
        base == [j EXCEPT !.attempt = attempt]
    IN  IF NewRequestFails(j.URL)
        THEN [base EXCEPT !.pc = "ret", !.err = "failed to create request"]
        ELSE
        LET sent == [base EXCEPT !.nreq = @ + 1,
                                 !.req = [URL |-> j.URL,
                                          Headers |-> RequestHeaders(j.Headers, test.ContentType),
                                          Body |-> j.Body]]
        IN  IF out.kind # "response"
            THEN [sent EXCEPT !.pc = "ret", !.err = out.kind]
            ELSE
            LET r == out.resp
                seen == [sent EXCEPT
                            !.firstSat = IF @ = 0 /\ WaitSatisfied(test, r) THEN sent.nreq ELSE @,
                            !.partial = IF MeetsOnlyOne(test, r) THEN @ + 1 ELSE @]
            IN  IF StatusUnmet(test, r)
                THEN IF AttemptsExhausted(attempt, retryMax)
                     THEN [seen EXCEPT !.pc = "ret", !.err = "wait for status failed"]
                     ELSE Retry(seen, test)
                ELSE IF FieldUnmet(test, r)
                     THEN IF AttemptsExhausted(attempt, retryMax)
                          THEN [seen EXCEPT !.pc = "ret", !.err = "wait for field failed"]
                          ELSE Retry(seen, test)
                     ELSE ValidateAndSave(seen, test, r)

(***************************************************************************)
(* Initial states.                                                         *)
(***************************************************************************)
Min(a, b) == IF a <= b THEN a ELSE b

\* every list of at most maxFiles files of 1..maxTests tests of a catalogue
\* with at most maxTotal tests in all (collectTestFiles keeps only files
\* that have tests; main returns early when there is no test at all)
RECURSIVE FileListsFrom(_, _, _, _)
FileListsFrom(catalogue, maxFiles, maxTests, maxTotal) ==
    IF maxFiles = 0 \/ maxTotal = 0 THEN {<<>>}
    ELSE {<<>>} \cup
         UNION {{<<f>> \o rest :
                    rest \in FileListsFrom(catalogue, maxFiles - 1, maxTests,
                                           maxTotal - Len(f))} :
                f \in UNION {[1..n -> catalogue] : n \in 1..Min(maxTests, maxTotal)}}

FileLists(catalogue, maxFiles, maxTests, maxTotal) ==
    FileListsFrom(catalogue, maxFiles, maxTests, maxTotal) \ {<<>>}

RunCatalogue == TestIds

SeqCatalogue ==
    {[n |-> nm, m |-> 0] : nm \in {"saveId", "useId"}}

ParCatalogue ==
    {[n |-> nm, m |-> 0] : nm \in {"saveId", "useId"}}

\* the clock at 0 and nothing measured yet: now is time.Now(), fileStart
\* the sequential runner's fileStart, started and durations the start and
\* the duration of every call of runTest, reported the per-file durations
\* printed so far
NoTiming(n) ==
    [now |-> 0, fileStart |-> 0, started |-> [i \in 1..n |-> 0],
     durations |-> [i \in 1..n |-> 0], reported |-> <<>>]

NoInput == [fn |-> "none"]

NoOutput == [fn |-> "none"]

\* the state at the call of a runner on the files tf with quiet argument q
InitRunner(m, tf, k, q) ==
    /\ quiet = q
    /\ parseIn = NoInput
    /\ parseOut = NoOutput
    /\ mode = m
    /\ testFiles = tf
    /\ maxWorkers = k
    /\ job = [i \in 1..Len(FlattenFrom(tf, 1)) |-> NewJob(FlattenFrom(tf, 1)[i].test)]
    /\ cur = 1
    /\ sem = 0
    /\ results = [i \in 1..Len(FlattenFrom(tf, 1)) |-> NoResult]
    /\ writes = <<>>
    /\ passed = 0
    /\ failed = 0
    /\ printed = <<>>
    /\ mainpc = "run"
    /\ timing = NoTiming(Len(FlattenFrom(tf, 1)))

\* the runs without --quiet
InitWith(m, tf, k) == InitRunner(m, tf, k, FALSE)

InitRun == \E id \in RunCatalogue : InitWith("run", <<<<id>>>>, 1)

InitSeq ==
    \E tf \in FileLists(SeqCatalogue, MaxFiles, MaxTests, MaxSeqTests) :
        InitWith("seq", tf, 1)

InitPar ==
    \E tf \in FileLists(ParCatalogue, MaxFiles, MaxTests, MaxJobs), k \in 1..MaxWorkers :
        InitWith("par", tf, k)

(***************************************************************************)
(* Actions.                                                                *)
(***************************************************************************)
\* the caller's Test value of job i as the call leaves it: runTest gets the
\* struct by value, so URL and Body of the caller's copy are never assigned;
\* the Headers field of both copies is one map, written by http.go:39-41
DefinitionOf(i) ==
    [URL |-> TestAt(i).URL, Body |-> TestAt(i).Body, Headers |-> job[i].Headers]

\* a direct call runTest(test, store), as the unit of all three runners
Call ==
    /\ mode = "run"
    /\ job[1].pc = "idle"
    /\ \E store \in InitialStores :
          \E j \in EnterRunTest(job[1], store) : job' = [job EXCEPT ![1] = j]
    /\ UNCHANGED <<mode, testFiles, maxWorkers, cur, sem, results, writes,
                   passed, failed, printed, mainpc, parseIn, parseOut, timing, quiet>>

\* one pass through the loop body of runTest for job i: build the request,
\* send it, receive out, then retry, fail or validate and save
Attempt(i) ==
    /\ job[i].pc = "loop"
    /\ \E out \in (IF mode = "run" THEN Outcomes
                    ELSE IF Jobs[i].test.n = "timed" THEN TimedOutcomes
                    ELSE SchedOutcomes) :
          job' = [job EXCEPT ![i] = LoopIteration(job[i], TestAt(i), out)]
    /\ UNCHANGED <<mode, testFiles, maxWorkers, cur, sem, results, writes,
                   passed, failed, printed, mainpc, parseIn, parseOut, timing, quiet>>

\* variant: the store of the previous file is carried into the next one
SeqStoreFor_NoReset(i) == IF i = 1 THEN EmptyMap ELSE job[i - 1].vars

\* the store the sequential runner hands to the i-th test: a fresh map for
\* the first test of a file, else the map the previous call returned
SeqStoreFor(i) ==
    IF Jobs[i].testIndex = 1 THEN EmptyMap ELSE job[i - 1].vars

\* variant: the jobs work on the store of the job before them
ParStoreFor_Shared(i) == IF i = 1 THEN EmptyMap ELSE job[i - 1].vars

\* the store a parallel job hands to runTest: none
ParStoreFor(i) == EmptyMap

\* the sequential runner calls runTest for the next test in document order
SeqStart ==
    /\ mode = "seq"
    /\ mainpc = "run"
    /\ cur <= N
    /\ job[cur].pc = "idle"
    /\ \E j \in EnterRunTest(job[cur], SeqStoreFor(cur)) :
          job' = [job EXCEPT ![cur] = j]
    /\ timing' = [timing EXCEPT !.started[cur] = timing.now,
                                !.fileStart = IF Jobs[cur].testIndex = 1
                                              THEN timing.now ELSE @]
    /\ UNCHANGED <<mode, testFiles, maxWorkers, cur, sem, results, writes,
                   passed, failed, printed, mainpc, parseIn, parseOut, quiet>>

\* variant: the runner stops at the first failing test
SeqContinues_StopOnFail(err) == err = "none"

\* whether the sequential runner goes on to the next test after this result
SeqContinues(err) == TRUE

\* test i is the last test of its file
LastOfFile(i) == i = N \/ Jobs[i + 1].fileIndex # Jobs[i].fileIndex

\* variant: the duration is taken from the start of the suite
FileDurationSeq_FromSuiteStart == timing.now

\* fileDuration := time.Since(fileStart) (part_008:54)
FileDurationSeq == timing.now - timing.fileStart

\* variant: the line of every test is written, quiet or not
ShowsLine_Always(err) == TRUE

\* whether the result line of a test that returned err is written: always
\* without --quiet, with it only when the test failed
ShowsLine(err) == ~quiet \/ err # "none"

\* runTest returned: print the line, count it, move on (part_008:44-52);
\* after the last test of a file, print the file's duration when there is
\* more than one file (part_008:54-57)
SeqFinish ==
    /\ mode = "seq"
    /\ mainpc = "run"
    /\ cur <= N
    /\ job[cur].pc = "ret"
    /\ job' = [job EXCEPT ![cur].pc = "done"]
    /\ printed' = IF ShowsLine(job[cur].err)
                  THEN Append(printed, [Index |-> cur, Err |-> job[cur].err])
                  ELSE printed
    /\ IF job[cur].err # "none"
       THEN failed' = failed + 1 /\ passed' = passed
       ELSE passed' = passed + 1 /\ failed' = failed
    /\ cur' = cur + 1
    /\ mainpc' = IF cur = N \/ ~SeqContinues(job[cur].err) THEN "done" ELSE "run"
    /\ timing' = [timing EXCEPT
                      !.durations[cur] = timing.now - timing.started[cur],
                      !.reported = IF LastOfFile(cur) /\ Len(testFiles) > 1
                                   THEN Append(@, [FileIndex |-> Jobs[cur].fileIndex,
                                                   Duration |-> FileDurationSeq])
                                   ELSE @]
    /\ UNCHANGED <<mode, testFiles, maxWorkers, sem, results, writes, parseIn, parseOut, quiet>>

\* variant: the send never blocks
SemFree_Unbounded == TRUE

\* sem <- struct{}{} blocks while the channel buffer is full
SemFree == sem < maxWorkers

\* goroutine i acquires a permit and enters runTest (part_008:102-106)
Acquire(i) ==
    /\ mode = "par"
    /\ job[i].pc = "idle"
    /\ SemFree
    /\ sem' = sem + 1
    /\ \E j \in EnterRunTest(job[i], ParStoreFor(i)) :
          job' = [job EXCEPT ![i] = j]
    /\ timing' = [timing EXCEPT !.started[i] = timing.now]
    /\ UNCHANGED <<mode, testFiles, maxWorkers, cur, results, writes,
                   passed, failed, printed, mainpc, parseIn, parseOut, quiet>>

\* variant: every goroutine writes the first slot
SlotOf_First(idx) == 1

\* the slot goroutine idx writes: results[idx]
SlotOf(idx) == idx

\* results[idx] = TestResult{...} (part_008:107-114)
Record(i) ==
    /\ mode = "par"
    /\ job[i].pc = "ret"
    /\ results' = [results EXCEPT ![SlotOf(i)] =
                      [Index |-> i, FileIndex |-> Jobs[i].fileIndex, Err |-> job[i].err]]
    /\ writes' = Append(writes, <<i, SlotOf(i)>>)
    /\ job' = [job EXCEPT ![i].pc = "rec"]
    /\ timing' = [timing EXCEPT !.durations[SlotOf(i)] = timing.now - timing.started[i]]
    /\ UNCHANGED <<mode, testFiles, maxWorkers, cur, sem,
                   passed, failed, printed, mainpc, parseIn, parseOut, quiet>>

\* variant: the permit of a job whose test failed is not given back
Release_KeptOnFailure(i) ==
    /\ mode = "par"
    /\ job[i].pc = "rec"
    /\ sem' = IF job[i].err = "none" THEN sem - 1 ELSE sem
    /\ job' = [job EXCEPT ![i].pc = "done"]
    /\ UNCHANGED <<mode, testFiles, maxWorkers, cur, results, writes,
                   passed, failed, printed, mainpc, parseIn, parseOut, timing, quiet>>

\* the deferred <-sem and wg.Done() (part_008:101-103)
Release(i) ==
    /\ mode = "par"
    /\ job[i].pc = "rec"
    /\ sem' = sem - 1
    /\ job' = [job EXCEPT ![i].pc = "done"]
    /\ UNCHANGED <<mode, testFiles, maxWorkers, cur, results, writes,
                   passed, failed, printed, mainpc, parseIn, parseOut, timing, quiet>>

\* wg.Wait() returns once every goroutine has called wg.Done()
WgWait == \A i \in 1..N : job[i].pc = "done"

CountErr(rs) == Cardinality({i \in 1..Len(rs) : rs[i].Err # "none"})

MaxOf(S) == CHOOSE x \in S : \A y \in S : y <= x

\* variant: the durations of the file's tests are added up
FileDurationPar_Sum(fi) ==
    LET RECURSIVE SumFrom(_)
        SumFrom(i) ==
            IF i > N THEN 0
            ELSE (IF results[i].FileIndex = fi THEN timing.durations[i] ELSE 0) + SumFrom(i + 1)
    IN  SumFrom(1)

\* fileDurations[fi] (part_008:121-126): the largest Duration among the
\* results of the file, 0 when there is none
FileDurationPar(fi) ==
    MaxOf({0} \cup {timing.durations[i] : i \in {j \in 1..N : results[j].FileIndex = fi}})

\* the lines the parallel runner writes for the results, in job order
RECURSIVE ResultLines(_)
ResultLines(rs) ==
    IF rs = <<>> THEN <<>>
    ELSE (IF ShowsLine(rs[1].Err)
          THEN <<[Index |-> rs[1].Index, Err |-> rs[1].Err]>> ELSE <<>>)
         \o ResultLines(Tail(rs))

\* after wg.Wait(): walk the jobs in order and print results[i], and after
\* the results of each file its duration when there is more than one file
\* (part_008:118-158)
Collect ==
    /\ mode = "par"
    /\ mainpc = "run"
    /\ WgWait
    /\ printed' = ResultLines(results)
    /\ failed' = CountErr(results)
    /\ passed' = N - CountErr(results)
    /\ mainpc' = "done"
    /\ timing' = [timing EXCEPT
                      !.reported = IF Len(testFiles) > 1
                                   THEN [fi \in 1..Len(testFiles) |->
                                            [FileIndex |-> fi, Duration |-> FileDurationPar(fi)]]
                                   ELSE <<>>]
    /\ UNCHANGED <<mode, testFiles, maxWorkers, job, cur, sem, results, writes, parseIn, parseOut, quiet>>

\* time passes while a call of runTest is under way (the statements of
\* the runners between two calls take no time)
Tick ==
    /\ mode \in {"seq", "par"}
    /\ mainpc = "run"
    /\ timing.now < MaxClock
    /\ \E i \in 1..N : job[i].pc = "loop"
    /\ timing' = [timing EXCEPT !.now = @ + 1]
    /\ UNCHANGED <<mode, testFiles, maxWorkers, job, cur, sem, results, writes,
                   passed, failed, printed, mainpc, parseIn, parseOut, quiet>>

NextRun == Call \/ Attempt(1)

NextSeq == SeqStart \/ (\E i \in 1..N : Attempt(i)) \/ SeqFinish

NextPar ==
    \/ \E i \in 1..N : Acquire(i)
    \/ \E i \in 1..N : Attempt(i)
    \/ \E i \in 1..N : Record(i)
    \/ \E i \in 1..N : Release(i)
    \/ Collect

InitSched == InitSeq \/ InitPar

NextSched == NextSeq \/ NextPar

SpecRun == InitRun /\ [][NextRun]_vars

SpecSeq == InitSeq /\ [][NextSeq]_vars

SpecPar == InitPar /\ [][NextPar]_vars

SpecSched == InitSched /\ [][NextSched]_vars

\* the runs whose durations are measured: a file of up to MaxTimedTests
\* tests without wait directive and a file of one such test, with time
\* passing
TimedCatalogue == {[n |-> "timed", m |-> 0]}

TimedFiles ==
    {<<[i \in 1..n |-> t], <<t>>>> : n \in 1..MaxTimedTests, t \in TimedCatalogue}

InitTimed ==
    \/ \E tf \in TimedFiles : InitWith("seq", tf, 1)
    \/ \E tf \in TimedFiles, k \in 1..MaxWorkers : InitWith("par", tf, k)

NextTimed == NextSched \/ Tick

SpecTimed == InitTimed /\ [][NextTimed]_vars

(***************************************************************************)
(* Properties.                                                             *)
(***************************************************************************)
HasWait(test) == test.WaitForStatus # 0 \/ test.WaitForField # <<>>

Returned(j) == j.pc \in {"ret", "rec", "done"}

NoResponseErrors ==
    {"failed to create request", "request failed", "failed to read response"}

WaitTimeouts == {"wait for status failed", "wait for field failed"}

\* C1: for a test with a wait condition and max attempts M (its Retry count,
\* or 10 without one), on any sequence of responses: never more than M
\* requests are sent; when the call returns, if the first response meeting
\* the wait condition was the k-th then exactly k requests were sent and
\* that response went to validation, and if there was none exactly M
\* requests were sent and the error is a wait timeout.
C1_WaitAttempts ==
    \A i \in 1..N :
        LET j == job[i]
            t == TestAt(i)
            M == RetryMaxOf(t)
        IN  HasWait(t) =>
              /\ j.nreq <= M
              /\ (Returned(j) /\ j.err \notin NoResponseErrors) =>
                    IF j.firstSat # 0
                    THEN /\ j.nreq = j.firstSat
                         /\ j.validated # NoResp
                         /\ WaitSatisfied(t, j.validated)
                         /\ j.err \notin WaitTimeouts
                    ELSE /\ j.nreq = M
                         /\ j.validated = NoResp
                         /\ j.err \in WaitTimeouts

\* responses [500, 500, 200], wait for status 200, Retry 3: passes on the
\* third request
C1_Witness ==
    \E i \in 1..N :
        /\ TestAt(i).WaitForStatus = 200
        /\ TestAt(i).RetryMax = 3
        /\ job[i].pc = "ret"
        /\ job[i].nreq = 3
        /\ job[i].firstSat = 3
        /\ job[i].err = "none"

\* C2: with both a wait-for-status and a wait-for-field condition, the
\* response handed to validation has the awaited status and the awaited
\* field value; a response meeting only one of the two is not validated and
\* uses up one attempt.
C2_BothWaitsHold ==
    \A i \in 1..N :
        LET j == job[i]
            t == TestAt(i)
        IN  (t.WaitForStatus # 0 /\ t.WaitForField # <<>>) =>
              /\ j.validated # NoResp =>
                    /\ j.validated.status = t.WaitForStatus
                    /\ LET got == getJSONField(j.validated.json, t.WaitForField)
                       IN  got.ok /\ valuesEqual(got.v, parseExpectedValue(t.WaitForValue))
              /\ j.firstSat = 0 => j.validated = NoResp
              /\ j.attempt = j.nreq
              /\ j.partial <= j.nreq - (IF j.validated # NoResp THEN 1 ELSE 0)

\* a response with only one condition met was retried, the next one met
\* both and was validated
C2_Witness ==
    \E i \in 1..N :
        /\ TestAt(i).WaitForStatus # 0
        /\ TestAt(i).WaitForField # <<>>
        /\ job[i].partial = 1
        /\ job[i].nreq = 2
        /\ job[i].validated # NoResp
        /\ job[i].err = "none"

\* C3: save directives run only after every assertion passed: a call that
\* fails at request creation, send, wait timeout or assertion validation
\* leaves the store with the names and values it was given.
C3_FailureKeepsStore ==
    \A i \in 1..N :
        LET j == job[i]
        IN  /\ j.pc = "loop" => j.vars = j.vars0
            /\ (Returned(j) /\ j.err \notin {"none", "save field failed"}) =>
                  j.vars = j.vars0

\* an assertion fails on a response from which the save directive could
\* have extracted its field, with a non-empty store
C3_Witness ==
    \E i \in 1..N :
        /\ job[i].pc = "ret"
        /\ job[i].err = "status assertion failed"
        /\ TestAt(i).SaveFields # <<>>
        /\ getJSONField(job[i].validated.json, TestAt(i).SaveFields[1].Field).ok
        /\ job[i].vars0 # EmptyMap
        /\ job[i].vars = job[i].vars0

\* C4: when extraction fails for any save directive, no variable of this
\* test is stored: the store after the call equals the store before it.
C4_SaveFailureKeepsStore ==
    \A i \in 1..N :
        (Returned(job[i]) /\ job[i].err = "save field failed") =>
            job[i].vars = job[i].vars0

SameFile(a, b) == Jobs[a].fileIndex = Jobs[b].fileIndex

\* the save directives of a response that extract, up to the first that
\* does not, as <<variable, value>> pairs
RECURSIVE Extracted(_, _)
Extracted(saveFields, json) ==
    IF Len(saveFields) = 0 THEN <<>>
    ELSE LET got == getJSONField(json, saveFields[1].Field)
         IN  IF ~got.ok THEN <<>>
             ELSE <<[Variable |-> saveFields[1].Variable, Value |-> got.v]>>
                  \o Extracted(Tail(saveFields), json)

\* what test a has written into the store so far
StoredBy(a) ==
    IF Returned(job[a]) /\ job[a].err \in {"none", "save field failed"}
    THEN Extracted(TestAt(a).SaveFields, job[a].validated.json)
    ELSE <<>>

\* what every test has written into the store so far
StoredAll == [a \in 1..N |-> StoredBy(a)]

\* the names written by the tests before b in b's file (st: StoredAll)
NamesBefore(st, b) ==
    UNION {{st[a][k].Variable : k \in 1..Len(st[a])} :
              a \in {x \in 1..(b - 1) : SameFile(x, b)}}

\* the value most recently written under v before test b in b's file
LastStored(st, b, v) ==
    LET ws == {a \in 1..(b - 1) :
                  SameFile(a, b) /\ \E k \in 1..Len(st[a]) : st[a][k].Variable = v}
        a == CHOOSE x \in ws : \A y \in ws : y <= x
        ks == {k \in 1..Len(st[a]) : st[a][k].Variable = v}
        k == CHOOSE x \in ks : \A y \in ks : y <= x
    IN  st[a][k].Value

\* text is template with the placeholders of the names of S replaced by
\* the string forms of their values
Substituted(text, template, S) ==
    \E o \in Orders(DOMAIN S) : text = InterpolateOrder(template, S, o)

\* the request of test b is its template with every {{v}} replaced by val
\* (and the placeholders of the other names stored before b by their values)
RequestHas(st, b, v, val) ==
    LET t == TestAt(b)
        r == job[b].req
        S == [n \in NamesBefore(st, b) |-> IF n = v THEN val ELSE LastStored(st, b, n)]
    IN  /\ Substituted(r.URL, t.URL, S)
        /\ Substituted(r.Body, t.Body, S)
        /\ \A h \in DOMAIN t.Headers : Substituted(r.Headers[h], t.Headers[h], S)

\* the request of test b is its template, nothing substituted
RequestIsTemplate(b) ==
    /\ job[b].req.URL = TestAt(b).URL
    /\ job[b].req.Body = TestAt(b).Body
    /\ \A h \in DOMAIN TestAt(b).Headers : job[b].req.Headers[h] = TestAt(b).Headers[h]

u_7 == <<"/", "u", "/", "7">>

C6_StoreResetBetweenFiles ==
    mode = "seq" =>
        LET st == StoredAll
        IN  \A i \in 1..N :
                job[i].pc # "idle" =>
                    /\ Jobs[i].testIndex = 1 => job[i].vars0 = EmptyMap
                    /\ DOMAIN job[i].vars0 = NamesBefore(st, i)
                    /\ (NamesBefore(st, i) = {} /\ job[i].nreq >= 1) => RequestIsTemplate(i)

\* a test of the first file saved id; the first test of the second file
\* references {{id}} and sent it unresolved
C6_Witness ==
    /\ mode = "seq"
    /\ \E a, b \in 1..N :
          /\ Jobs[a].fileIndex = 1
          /\ Jobs[b].fileIndex = 2
          /\ Jobs[b].testIndex = 1
          /\ job[a].err = "none"
          /\ s_id \in DOMAIN job[a].vars
          /\ TestAt(b).URL = u_use
          /\ job[b].nreq >= 1
          /\ job[b].req.URL = u_use

\* C7: in parallel mode every job runs on its own store, empty at the
\* start: in every interleaving its request is its template with nothing
\* substituted, whatever the other jobs have saved.
C7_ParallelStoresIsolated ==
    mode = "par" =>
        \A i \in 1..N :
            /\ job[i].pc # "idle" => job[i].vars0 = EmptyMap
            /\ job[i].pc = "loop" =>
                  /\ job[i].URL = TestAt(i).URL
                  /\ job[i].Body = TestAt(i).Body
                  /\ job[i].Headers = TestAt(i).Headers
            /\ job[i].nreq >= 1 => RequestIsTemplate(i)
            /\ DOMAIN job[i].vars \subseteq
                  {TestAt(i).SaveFields[k].Variable : k \in 1..Len(TestAt(i).SaveFields)}

\* with one worker, a job saved id and finished; the job that references
\* {{id}} entered runTest after that and sent the placeholder unresolved
C7_Witness ==
    /\ mode = "par"
    /\ maxWorkers = 1
    /\ \E a, b \in 1..N :
          /\ a < b
          /\ job[a].pc = "done"
          /\ job[a].err = "none"
          /\ s_id \in DOMAIN job[a].vars
          /\ TestAt(b).URL = u_use
          /\ job[b].pc = "ret"
          /\ job[b].nreq >= 1
          /\ job[b].req.URL = u_use

\* the jobs that hold a permit of sem
Holding == {i \in 1..N : job[i].pc \in {"loop", "ret", "rec"}}

\* C8: in parallel mode with worker bound K, at most K jobs have acquired
\* the semaphore and are inside runTest at any time, also when N > K.
C8_AtMostKInFlight ==
    mode = "par" =>
        /\ Cardinality(Holding) <= maxWorkers
        /\ sem = Cardinality(Holding)

\* more jobs than workers: K jobs are in runTest and another one waits
C8_Witness ==
    /\ mode = "par"
    /\ N > maxWorkers
    /\ Cardinality({i \in 1..N : job[i].pc = "loop"}) = maxWorkers
    /\ \E i \in 1..N : job[i].pc = "idle"

\* C9: in parallel mode job i writes only slot i of results, no two jobs
\* write the same slot, results is read only after every job has finished,
\* and the lines are printed in job order with each job's own outcome.
C9_OwnSlotAndJobOrder ==
    mode = "par" =>
        /\ \A w \in 1..Len(writes) : writes[w][2] = writes[w][1]
        /\ \A w1, w2 \in 1..Len(writes) :
              writes[w1][2] = writes[w2][2] => writes[w1][1] = writes[w2][1]
        /\ mainpc = "done" =>
              /\ \A i \in 1..N : job[i].pc = "done"
              /\ Len(printed) = N
              /\ \A i \in 1..N :
                    printed[i] = [Index |-> i, Err |-> job[i].err]

\* the second job wrote its result before the first one, and the lines
\* still come out in job order
C9_Witness ==
    /\ mode = "par"
    /\ mainpc = "done"
    /\ Len(writes) >= 2
    /\ writes[1][1] > writes[2][1]
    /\ printed[1].Index = 1
    /\ printed[2].Index = 2

FailingOn(test, r) ==
    {k \in 1..Len(test.Assertions) :
        validateAssertion(test.Assertions[k], r.status, r.json) # "ok"}

\* C12: validation is fail-fast and ordered: no assertion is evaluated on a
\* response that is followed by a retry or when no response came; on the
\* final response the assertions are evaluated in declared order, each at
\* most once, up to and including the first failing one, whose error is the
\* error of the test; when none fails all are evaluated.
C12_FailFastInOrder ==
    \A i \in 1..N :
        LET j == job[i]
            t == TestAt(i)
            r == j.validated
            failing == FailingOn(t, r)
        IN  /\ j.pc \in {"idle", "loop"} => j.evals = <<>>
            /\ r = NoResp => j.evals = <<>>
            /\ r # NoResp =>
                  IF failing = {}
                  THEN /\ j.evals = [k \in 1..Len(t.Assertions) |-> k]
                       /\ j.err \in {"none", "save field failed"}
                  ELSE LET f == CHOOSE k \in failing : \A m \in failing : k <= m
                       IN  /\ j.evals = [k \in 1..f |-> k]
                           /\ j.err = validateAssertion(t.Assertions[f], r.status, r.json)

\* a test with three assertions waited through one response, then got the
\* response that ended the waiting; its first and second assertion both
\* fail on it, with different errors, and only the first was evaluated
C12_Witness ==
    /\ mode = "run"
    /\ Len(TestAt(1).Assertions) = 3
    /\ job[1].nreq = 2
    /\ job[1].validated # NoResp
    /\ {1, 2} \subseteq FailingOn(TestAt(1), job[1].validated)
    /\ job[1].evals = <<1>>
    /\ job[1].err = "status assertion failed"

\* C13: a test definition is read-only for runTest: at every point of a call
\* and after it returned, the definition's URL, header map and body hold
\* their original template text.
C13_DefinitionReadOnly ==
    \A i \in 1..N :
        /\ DefinitionOf(i).URL = TestAt(i).URL
        /\ DefinitionOf(i).Body = TestAt(i).Body
        /\ DefinitionOf(i).Headers = TestAt(i).Headers

\* C14: a transport failure fails the test at once, with no further request,
\* when no wait condition is configured; with a wait condition the failed
\* attempt is retried and counts against the maximum, so the test fails on a
\* transport failure only when its attempts are used up.
C14_TransportFailureRetriedUnderWait ==
    \A i \in 1..N :
        (Returned(job[i]) /\ job[i].err = "request failed") =>
            IF HasWait(TestAt(i))
            THEN job[i].attempt >= RetryMaxOf(TestAt(i))
            ELSE job[i].attempt = 1 /\ job[i].nreq = 1

(***************************************************************************)
(* parser.go: frontmatter, test blocks and assertions, as functions of the *)
(* text of a file.                                                         *)
(***************************************************************************)
\* unicode.IsSpace for the characters of the model
IsSpace(c) == c \in {" ", "\t", "\n", "\r"}

RECURSIVE TrimLeftSpace(_)
TrimLeftSpace(s) ==
    IF Len(s) > 0 /\ IsSpace(s[1]) THEN TrimLeftSpace(Tail(s)) ELSE s

RECURSIVE TrimRightSpace(_)
TrimRightSpace(s) ==
    IF Len(s) > 0 /\ IsSpace(s[Len(s)])
    THEN TrimRightSpace(SubSeq(s, 1, Len(s) - 1)) ELSE s

\* strings.TrimSpace
TrimSpace(s) == TrimRightSpace(TrimLeftSpace(s))

\* strings.TrimPrefix, strings.TrimSuffix: one occurrence is removed
TrimPrefix(s, p) == IF HasPrefix(s, p) THEN SubSeq(s, Len(p) + 1, Len(s)) ELSE s

TrimSuffix(s, p) == IF HasSuffix(s, p) THEN SubSeq(s, 1, Len(s) - Len(p)) ELSE s

\* strings.Split(content, "\n")
Lines(s) == SplitOn(s, "\n")

\* strings.Join(lines, "\n")
RECURSIVE JoinLines(_)
JoinLines(lines) ==
    IF Len(lines) = 0 THEN <<>>
    ELSE IF Len(lines) = 1 THEN lines[1]
    ELSE lines[1] \o <<"\n">> \o JoinLines(Tail(lines))

\* strings.SplitN(s, ":", 2)
SplitN2(s, c) ==
    IF \A i \in 1..Len(s) : s[i] # c THEN <<s>>
    ELSE LET i == CHOOSE j \in 1..Len(s) : s[j] = c /\ \A m \in 1..(j - 1) : s[m] # c
         IN  <<SubSeq(s, 1, i - 1), SubSeq(s, i + 1, Len(s))>>

s_delim == <<"-", "-", "-">>
s_rootKey == <<"r", "o", "o", "t", ":">>
s_headersKey == <<"h", "e", "a", "d", "e", "r", "s", ":">>
s_slash == <<"/">>

\* Defaults{Headers: make(map[string]string)}
EmptyDefaults == [Root |-> <<>>, Headers |-> EmptyMap]

\* the loop over the lines between the delimiters (parser.go:78-114),
\* from line i on (1-based)
RECURSIVE ScanFrontmatter(_, _, _, _, _)
ScanFrontmatter(lines, i, endIdx, defaults, inHeaders) ==
    IF i >= endIdx THEN defaults
    ELSE LET line == lines[i]
             trimmed == TrimSpace(line)
         IN  IF trimmed = <<>>
             THEN ScanFrontmatter(lines, i + 1, endIdx, defaults, inHeaders)
             ELSE IF HasPrefix(trimmed, s_rootKey)
             THEN ScanFrontmatter(lines, i + 1, endIdx,
                      [defaults EXCEPT !.Root =
                          TrimSuffix(TrimSpace(TrimPrefix(trimmed, s_rootKey)), s_slash)],
                      FALSE)
             ELSE IF trimmed = s_headersKey
             THEN ScanFrontmatter(lines, i + 1, endIdx, defaults, TRUE)
             ELSE IF inHeaders /\ (HasPrefix(line, <<" ", " ">>) \/ HasPrefix(line, <<"\t">>))
             THEN LET parts == SplitN2(trimmed, ":")
                  IN  IF Len(parts) = 2
                      THEN ScanFrontmatter(lines, i + 1, endIdx,
                               [defaults EXCEPT !.Headers =
                                   (TrimSpace(parts[1]) :> TrimSpace(parts[2])) @@ @],
                               inHeaders)
                      ELSE ScanFrontmatter(lines, i + 1, endIdx, defaults, inHeaders)
             ELSE ScanFrontmatter(lines, i + 1, endIdx, defaults, FALSE)

\* parseFrontmatter (parser.go:46-119): the defaults and the text handed on
parseFrontmatter(content) ==
    IF ~HasPrefix(TrimSpace(content), s_delim)
    THEN [defaults |-> EmptyDefaults, remaining |-> content]
    ELSE LET trimmedContent == TrimSpace(content)
             lines == Lines(trimmedContent)
         IN  IF Len(lines) < 2 \/ TrimSpace(lines[1]) # s_delim
             THEN [defaults |-> EmptyDefaults, remaining |-> trimmedContent]
             ELSE LET closing == {i \in 2..Len(lines) : TrimSpace(lines[i]) = s_delim}
                  IN  IF closing = {}
                      THEN [defaults |-> EmptyDefaults, remaining |-> trimmedContent]
                      ELSE LET endIdx == CHOOSE i \in closing : \A m \in closing : i <= m
                           IN  [defaults |-> ScanFrontmatter(lines, 2, endIdx, EmptyDefaults, FALSE),
                                remaining |-> JoinLines(SubSeq(lines, endIdx + 1, Len(lines)))]

\* every sequence of 1..n members of S
SeqsUpTo(S, n) == UNION {[1..k -> S] : k \in 1..n}

\* the lines the frontmatter texts are made of
FmLines ==
    {s_delim, <<"r", "o", "o", "t", ":", " ", "h", "/">>, <<"r", "o", "o", "t", ":", " ", "h", "/", "/">>, s_headersKey, <<" ", " ", "A", ":", " ", "b">>, <<"x">>}

\* the file texts handed to parseFrontmatter: up to MaxFmLines lines, with
\* or without a blank line in front and a newline at the end
FmTexts ==
    {lead \o JoinLines(ls) \o trail :
        ls \in SeqsUpTo(FmLines, MaxFmLines),
        lead \in {<<>>, <<"\n">>}, trail \in {<<>>, <<"\n">>}}

InitParse(fn, args) ==
    /\ mode = "parse"
    /\ testFiles = <<>>
    /\ maxWorkers = 1
    /\ job = <<>>
    /\ cur = 1
    /\ sem = 0
    /\ results = <<>>
    /\ writes = <<>>
    /\ passed = 0
    /\ failed = 0
    /\ printed = <<>>
    /\ mainpc = "run"
    /\ parseIn = [fn |-> fn] @@ args
    /\ quiet = FALSE
    /\ parseOut = NoOutput
    /\ timing = NoTiming(0)

InitFrontmatter ==
    \E c \in FmTexts : InitParse("parseFrontmatter", [content |-> c])

\* the call parseFrontmatter(content) (parser.go:18)
CallParseFrontmatter ==
    /\ mode = "parse"
    /\ parseIn.fn = "parseFrontmatter"
    /\ parseOut = NoOutput
    /\ parseOut' = [fn |-> "parseFrontmatter"] @@ parseFrontmatter(parseIn.content)
    /\ UNCHANGED <<mode, testFiles, maxWorkers, job, cur, sem, results, writes,
                   passed, failed, printed, mainpc, parseIn, timing, quiet>>

SpecFrontmatter == InitFrontmatter /\ [][CallParseFrontmatter]_vars

\* the index of the first non-blank line of a text, 0 when there is none
FirstNonBlank(ls) ==
    IF \A i \in 1..Len(ls) : TrimSpace(ls[i]) = <<>> THEN 0
    ELSE CHOOSE i \in 1..Len(ls) :
             TrimSpace(ls[i]) # <<>> /\ \A m \in 1..(i - 1) : TrimSpace(ls[m]) = <<>>

\* the text opens a frontmatter block: its first non-blank line is `---`
OpensBlock(content) ==
    LET ls == Lines(content)
    IN  FirstNonBlank(ls) # 0 /\ TrimSpace(ls[FirstNonBlank(ls)]) = s_delim

\* the lines after the opening delimiter that are a `---` line too
ClosingLines(content) ==
    LET ls == Lines(content)
    IN  {i \in (FirstNonBlank(ls) + 1)..Len(ls) : TrimSpace(ls[i]) = s_delim}

\* C15: for every text whose leading `---` block has no closing delimiter,
\* parseFrontmatter returns empty defaults and the original text, character
\* for character.
C15_UnclosedReturnsOriginal ==
    (parseOut # NoOutput /\ parseOut.fn = "parseFrontmatter") =>
        ((OpensBlock(parseIn.content) /\ ClosingLines(parseIn.content) = {}) =>
            /\ parseOut.defaults = EmptyDefaults
            /\ parseOut.remaining = parseIn.content)

\* C16: for every well-formed frontmatter block parseFrontmatter returns a
\* remainder made of the lines after the closing delimiter only (neither
\* delimiter line nor any line between them), and a root that does not end
\* in `/`, whatever the `root:` value is.
C16_RemainderAndRootWithoutSlash ==
    (parseOut # NoOutput /\ parseOut.fn = "parseFrontmatter") =>
        ((OpensBlock(parseIn.content) /\ ClosingLines(parseIn.content) # {}) =>
            LET ls == Lines(TrimSpace(parseIn.content))
                closing == ClosingLines(TrimSpace(parseIn.content))
                c == CHOOSE i \in closing : \A m \in closing : i <= m
            IN  /\ parseOut.remaining = JoinLines(SubSeq(ls, c + 1, Len(ls)))
                /\ ~HasSuffix(parseOut.defaults.Root, s_slash))

\* the remainder half of C16 alone
C16_RemainderOnly ==
    (parseOut # NoOutput /\ parseOut.fn = "parseFrontmatter") =>
        ((OpensBlock(parseIn.content) /\ ClosingLines(parseIn.content) # {}) =>
            LET ls == Lines(TrimSpace(parseIn.content))
                closing == ClosingLines(TrimSpace(parseIn.content))
                c == CHOOSE i \in closing : \A m \in closing : i <= m
            IN  parseOut.remaining = JoinLines(SubSeq(ls, c + 1, Len(ls))))

(***************************************************************************)
(* parseAssertions (parser.go:257-384).                                    *)
(***************************************************************************)
\* the backquote character is written "tick"
s_fence == <<"tick", "tick", "tick">>
s_bullet == <<"-", " ">>
s_StatusIs == <<"S", "t", "a", "t", "u", "s", " ", "i", "s", " ">>
s_BodyContains == <<"B", "o", "d", "y", " ", "c", "o", "n", "t", "a", "i", "n", "s", " ", "tick">>
s_FieldTick == <<"F", "i", "e", "l", "d", " ", "tick">>
s_EqualsTick == <<"tick", " ", "e", "q", "u", "a", "l", "s", " ", "tick">>
s_DurationLess == <<"D", "u", "r", "a", "t", "i", "o", "n", " ", "l", "e", "s", "s", " ", "t", "h", "a", "n", " ">>
s_TimeLess == <<"T", "i", "m", "e", " ", "l", "e", "s", "s", " ", "t", "h", "a", "n", " ">>
s_BodyMatchesFile == <<"B", "o", "d", "y", " ", "m", "a", "t", "c", "h", "e", "s", " ", "f", "i", "l", "e", " ", "tick">>
s_BodyPartially == <<"B", "o", "d", "y", " ", "p", "a", "r", "t", "i", "a", "l", "l", "y", " ", "m", "a", "t", "c", "h", "e", "s", ":">>
s_marker == <<">", ">">>

\* the index of the first occurrence of sub in s at or after from, 0 if none
IndexFrom(s, sub, from) ==
    LET hits == {i \in from..(Len(s) - Len(sub) + 1) : SubSeq(s, i, i + Len(sub) - 1) = sub}
    IN  IF hits = {} THEN 0 ELSE CHOOSE i \in hits : \A m \in hits : i <= m

\* strings.Contains
Contains(s, sub) == IndexFrom(s, sub, 1) # 0

\* the length of the run of white space that s starts with
SpaceRun(s) == Len(s) - Len(TrimLeftSpace(s))

\* ([^`]+)` at the start of s: the group and what follows the closing tick
TickGroup(s) ==
    LET c == IndexFrom(s, <<"tick">>, 1)
    IN  IF c < 2 THEN [ok |-> FALSE, text |-> <<>>, rest |-> <<>>]
        ELSE [ok |-> TRUE, text |-> SubSeq(s, 1, c - 1), rest |-> SubSeq(s, c + 1, Len(s))]

\* (?m)^Asserts?:\s*$ tried at position p of content: 0, or the index of
\* the first character after the match (\s* is greedy and $ needs a
\* newline or the end of the text next)
AssertHeaderEndAt(content, p) ==
    LET rest == SubSeq(content, p, Len(content))
        word == IF HasPrefix(rest, <<"A", "s", "s", "e", "r", "t", "s", ":">>) THEN 8
                ELSE IF HasPrefix(rest, <<"A", "s", "s", "e", "r", "t", ":">>) THEN 7 ELSE 0
        after == p + word
        run == SpaceRun(SubSeq(content, after, Len(content)))
        ends == {e \in after..(after + run) : e = Len(content) + 1 \/ content[e] = "\n"}
    IN  IF (p > 1 /\ content[p - 1] # "\n") \/ word = 0 \/ ends = {} THEN 0
        ELSE CHOOSE e \in ends : \A m \in ends : m <= e

\* assertPattern.FindStringIndex(content): loc[1] + 1 of the leftmost
\* match, 0 when there is none
AssertHeaderEnd(content) ==
    LET starts == {p \in 1..Len(content) : AssertHeaderEndAt(content, p) # 0}
    IN  IF starts = {} THEN 0
        ELSE AssertHeaderEndAt(content, CHOOSE p \in starts : \A m \in starts : p <= m)

\* (?s)^\s*```(?:json)?\s*\n(.+?)``` on text: the first group. The tag is
\* taken when the match can go on with it, \s*\n ends at the last newline
\* of the white space after the tag that leaves a match, and the group ends
\* before the first fence that leaves it at least one character
CodeBlockAfterTag(text, q) ==
    LET run == SpaceRun(SubSeq(text, q, Len(text)))
        nls == {n \in q..(q + run - 1) :
                   text[n] = "\n" /\ IndexFrom(text, s_fence, n + 2) # 0}
    IN  IF nls = {} THEN [ok |-> FALSE, block |-> <<>>]
        ELSE LET n == CHOOSE x \in nls : \A m \in nls : m <= x
             IN  [ok |-> TRUE,
                  block |-> SubSeq(text, n + 1, IndexFrom(text, s_fence, n + 2) - 1)]

CodeBlock(text) ==
    LET p == SpaceRun(text) + 1
        open == SubSeq(text, p, Len(text))
    IN  IF ~HasPrefix(open, s_fence) THEN [ok |-> FALSE, block |-> <<>>]
        ELSE IF HasPrefix(open, s_fence \o <<"j", "s", "o", "n">>) /\ CodeBlockAfterTag(text, p + 7).ok
             THEN CodeBlockAfterTag(text, p + 7)
             ELSE CodeBlockAfterTag(text, p + 3)

\* the lines of a block marked with >>, prefix and white space removed
RECURSIVE MarkedLines(_)
MarkedLines(blockLines) ==
    IF Len(blockLines) = 0 THEN <<>>
    ELSE LET trimmed == TrimSpace(blockLines[1])
             marked == TrimSpace(TrimPrefix(trimmed, s_marker))
         IN  (IF HasPrefix(trimmed, s_marker) /\ marked # <<>> THEN <<marked>> ELSE <<>>)
             \o MarkedLines(Tail(blockLines))

\* the line the scan goes on from after a partial-match bullet at line i
\* whose block was found: the closing fence line if there is one, else i
SkipPastBlock(lines, i) ==
    LET opens == {j \in (i + 1)..Len(lines) : Contains(lines[j], s_fence)}
    IN  IF opens = {} THEN i
        ELSE LET j == CHOOSE x \in opens : \A m \in opens : x <= m
                 closes == {k \in (j + 1)..Len(lines) : Contains(lines[k], s_fence)}
             IN  IF closes = {} THEN i
                 ELSE CHOOSE x \in closes : \A m \in closes : x <= m

\* filepath.Join(baseDir, filePath) for a relative path (clean paths)
ResolvePath(baseDir, filePath) ==
    IF HasPrefix(filePath, s_slash) \/ baseDir = <<>> THEN filePath
    ELSE baseDir \o s_slash \o filePath

Assertion(type, field, value) == [Type |-> type, Field |-> field, Value |-> value]

\* the single-line grammars, tried in the order of the code, on the text of
\* a bullet after "- ": the assertions the bullet adds (none or one)
BulletAssertions(line, baseDir) ==
    IF HasPrefix(line, s_StatusIs)
    THEN <<Assertion("status", <<>>, TrimPrefix(line, s_StatusIs))>>
    ELSE IF HasPrefix(line, s_BodyContains) /\ TickGroup(TrimPrefix(line, s_BodyContains)).ok
    THEN <<Assertion("body_contains", TickGroup(TrimPrefix(line, s_BodyContains)).text, <<>>)>>
    ELSE IF /\ HasPrefix(line, s_FieldTick)
            /\ TickGroup(TrimPrefix(line, s_FieldTick)).ok
            /\ HasPrefix(<<"tick">> \o TickGroup(TrimPrefix(line, s_FieldTick)).rest, s_EqualsTick)
            /\ LET rest == TickGroup(TrimPrefix(line, s_FieldTick)).rest
               IN  TickGroup(SubSeq(rest, Len(s_EqualsTick), Len(rest))).ok
    THEN LET f == TickGroup(TrimPrefix(line, s_FieldTick))
             v == TickGroup(SubSeq(f.rest, Len(s_EqualsTick), Len(f.rest)))
         IN  <<Assertion("field_equals", f.text, v.text)>>
    ELSE IF HasPrefix(line, s_DurationLess) /\ Len(line) > Len(s_DurationLess)
    THEN <<Assertion("duration", <<>>, TrimPrefix(line, s_DurationLess))>>
    ELSE IF HasPrefix(line, s_TimeLess) /\ Len(line) > Len(s_TimeLess)
    THEN <<Assertion("duration", <<>>, TrimPrefix(line, s_TimeLess))>>
    ELSE IF HasPrefix(line, s_BodyMatchesFile) /\ TickGroup(TrimPrefix(line, s_BodyMatchesFile)).ok
    THEN <<Assertion("body_matches_file", <<>>,
                     ResolvePath(baseDir, TickGroup(TrimPrefix(line, s_BodyMatchesFile)).text))>>
    ELSE <<>>

\* variant: every line counts as a bullet
IsBullet_Always(line) == TRUE

\* strings.HasPrefix(line, "- ") on the trimmed line
IsBullet(line) == HasPrefix(line, s_bullet)

\* the loop over the lines after the Assert(s): line (parser.go:272-381)
RECURSIVE ScanAssertions(_, _, _, _)
ScanAssertions(lines, i, baseDir, assertions) ==
    IF i > Len(lines) THEN assertions
    ELSE LET line == TrimSpace(lines[i])
             text == TrimPrefix(line, s_bullet)
         IN  IF line = <<>> THEN ScanAssertions(lines, i + 1, baseDir, assertions)
             ELSE IF ~IsBullet(line) THEN assertions
             ELSE IF text = s_BodyPartially
             THEN LET cb == CodeBlock(JoinLines(SubSeq(lines, i + 1, Len(lines))))
                      marked == MarkedLines(Lines(cb.block))
                  IN  IF ~cb.ok THEN ScanAssertions(lines, i + 1, baseDir, assertions)
                      ELSE ScanAssertions(lines, SkipPastBlock(lines, i) + 1, baseDir,
                               assertions \o
                               (IF Len(marked) > 0
                                THEN <<Assertion("body_partial_match", <<>>, JoinLines(marked))>>
                                ELSE <<>>))
             ELSE ScanAssertions(lines, i + 1, baseDir,
                                 assertions \o BulletAssertions(text, baseDir))

parseAssertions(content, baseDir) ==
    IF AssertHeaderEnd(content) = 0 THEN <<>>
    ELSE ScanAssertions(
             Lines(SubSeq(content, AssertHeaderEnd(content), Len(content))),
             1, baseDir, <<>>)

(***************************************************************************)
(* parseTestBlock (parser.go:123-253).                                     *)
(***************************************************************************)
EqualFold(a, b) ==
    Len(a) = Len(b) /\ \A i \in 1..Len(a) : Lower(a[i]) = Lower(b[i])

HasPrefixFold(s, p) == Len(s) >= Len(p) /\ EqualFold(SubSeq(s, 1, Len(p)), p)

MethodNames == <<"GET", "POST", "PUT", "PATCH", "DELETE">>

MethodChars == <<<<"G", "E", "T">>, <<"P", "O", "S", "T">>, <<"P", "U", "T">>, <<"P", "A", "T", "C", "H">>, <<"D", "E", "L", "E", "T", "E">>>>

NoMatch == [ok |-> FALSE]

\* ^(GET|POST|PUT|PATCH|DELETE)\s+(\S+) on one line
HttpMatch(line) ==
    LET ms == {k \in 1..5 : HasPrefix(line, MethodChars[k])}
    IN  IF ms = {} THEN NoMatch
        ELSE LET k == CHOOSE x \in ms : TRUE
                 rest == SubSeq(line, Len(MethodChars[k]) + 1, Len(line))
                 after == TrimLeftSpace(rest)
                 stops == {i \in 1..Len(after) : IsSpace(after[i])}
                 target == IF stops = {} THEN after
                           ELSE SubSeq(after, 1, (CHOOSE i \in stops : \A m \in stops : i <= m) - 1)
             IN  IF SpaceRun(rest) = 0 \/ after = <<>> THEN NoMatch
                 ELSE [ok |-> TRUE, method |-> MethodNames[k], target |-> target]

s_http == <<"h", "t", "t", "p", ":", "/", "/">>
s_https == <<"h", "t", "t", "p", "s", ":", "/", "/">>

\* variant: the root is put in front of every target
ResolveURL_AlwaysRoot(root, urlOrPath) == root \o urlOrPath

\* the URL of the test from the root and the target of the request line
\* (parser.go:150-161)
ResolveURL(root, urlOrPath) ==
    IF HasPrefix(urlOrPath, s_slash) /\ root # <<>> THEN root \o urlOrPath
    ELSE IF HasPrefix(urlOrPath, s_http) \/ HasPrefix(urlOrPath, s_https) THEN urlOrPath
    ELSE IF root # <<>> THEN root \o s_slash \o urlOrPath
    ELSE urlOrPath

\* the text after "-" and one or more white space characters (^-\s+), when
\* the line starts that way
AfterDash(line) ==
    IF Len(line) >= 2 /\ line[1] = "-" /\ IsSpace(line[2])
    THEN [ok |-> TRUE, text |-> TrimLeftSpace(Tail(line))]
    ELSE NoMatch

\* the longest run of digits s starts with
DigitRun(s) ==
    LET stops == {i \in 1..Len(s) : ~IsDigit(s[i])}
    IN  IF stops = {} THEN s
        ELSE SubSeq(s, 1, (CHOOSE i \in stops : \A m \in stops : i <= m) - 1)

s_waitStatus == <<"w", "a", "i", "t", " ", "u", "n", "t", "i", "l", " ", "s", "t", "a", "t", "u", "s", " ", "i", "s", " ">>
s_waitField == <<"w", "a", "i", "t", " ", "u", "n", "t", "i", "l", " ", "f", "i", "e", "l", "d", " ", "tick">>
s_retry == <<"r", "e", "t", "r", "y", " ">>
s_timesEvery == <<" ", "t", "i", "m", "e", "s", " ", "e", "v", "e", "r", "y", " ">>
s_ContentTypeName == <<"C", "o", "n", "t", "e", "n", "t", "-", "T", "y", "p", "e">>

\* (?i)^-\s+Wait until status is (\d+)$
WaitStatusMatch(line) ==
    LET a == AfterDash(line)
    IN  IF ~a.ok \/ ~HasPrefixFold(a.text, s_waitStatus) THEN NoMatch
        ELSE LET d == SubSeq(a.text, Len(s_waitStatus) + 1, Len(a.text))
             IN  IF AllDigits(d) THEN [ok |-> TRUE, status |-> d] ELSE NoMatch

\* the wait-for-field directive: - Wait until field `path` equals `value`
WaitFieldMatch(line) ==
    LET a == AfterDash(line)
    IN  IF ~a.ok \/ ~HasPrefixFold(a.text, s_waitField) THEN NoMatch
        ELSE LET f == TickGroup(SubSeq(a.text, Len(s_waitField) + 1, Len(a.text)))
             IN  IF ~f.ok \/ ~HasPrefixFold(<<"tick">> \o f.rest, s_EqualsTick) THEN NoMatch
                 ELSE LET v == TickGroup(SubSeq(f.rest, Len(s_EqualsTick), Len(f.rest)))
                      IN  IF v.ok /\ v.rest = <<>>
                          THEN [ok |-> TRUE, field |-> f.text, value |-> v.text]
                          ELSE NoMatch

\* (?i)^-\s+Retry (\d+) times every (.+)$
RetryMatch(line) ==
    LET a == AfterDash(line)
    IN  IF ~a.ok \/ ~HasPrefixFold(a.text, s_retry) THEN NoMatch
        ELSE LET r == SubSeq(a.text, Len(s_retry) + 1, Len(a.text))
                 d == DigitRun(r)
                 t == SubSeq(r, Len(d) + 1, Len(r))
             IN  IF d # <<>> /\ HasPrefixFold(t, s_timesEvery) /\ Len(t) > Len(s_timesEvery)
                 THEN [ok |-> TRUE, max |-> d,
                       every |-> SubSeq(t, Len(s_timesEvery) + 1, Len(t))]
                 ELSE NoMatch

\* ^-\s+([^:]+):\s*(.+)$ with both groups trimmed: the name is what stands
\* between the dash and the first colon, the value what follows the colon
HeaderMatch(line) ==
    LET c == IndexFrom(line, <<":">>, 1)
    IN  IF Len(line) >= 2 /\ line[1] = "-" /\ IsSpace(line[2]) /\ c >= 4 /\ c < Len(line)
        THEN [ok |-> TRUE,
              name |-> TrimSpace(SubSeq(line, 2, c - 1)),
              value |-> TrimSpace(SubSeq(line, c + 1, Len(line)))]
        ELSE NoMatch

\* time.ParseDuration for texts of digits and a unit ms or s, in
\* milliseconds; the other texts of the model are no durations
ParseDuration(s) ==
    LET d == DigitRun(s)
        unit == SubSeq(s, Len(d) + 1, Len(s))
    IN  IF d # <<>> /\ unit = <<"m", "s">> THEN [ok |-> TRUE, d |-> DigitsVal(d)]
        ELSE IF d # <<>> /\ unit = <<"s">> THEN [ok |-> TRUE, d |-> 1000 * DigitsVal(d)]
        ELSE NoMatch

\* variant: a header that is already set keeps its value
SetHeader_KeepOld(headers, name, value) == headers @@ (name :> value)

\* test.Headers[name] = value
SetHeader(headers, name, value) == (name :> value) @@ headers

\* variant: a line that matches nothing is skipped
StopsScan_Never(line) == FALSE

\* the else branch of the option scan: break
StopsScan(line) == TRUE

\* the loop over the lines after the request line (parser.go:178-214)
RECURSIVE ScanOptions(_, _, _)
ScanOptions(lines, i, test) ==
    IF i > Len(lines) THEN test
    ELSE LET line == lines[i]
         IN  IF TrimSpace(line) = <<>> THEN ScanOptions(lines, i + 1, test)
             ELSE IF WaitStatusMatch(line).ok
             THEN ScanOptions(lines, i + 1,
                      IF AtoiOK(WaitStatusMatch(line).status)
                      THEN [test EXCEPT !.WaitForStatus = ParseIntVal(WaitStatusMatch(line).status)]
                      ELSE test)
             ELSE IF WaitFieldMatch(line).ok
             THEN ScanOptions(lines, i + 1,
                      [test EXCEPT !.WaitForField = WaitFieldMatch(line).field,
                                   !.WaitForValue = WaitFieldMatch(line).value])
             ELSE IF RetryMatch(line).ok
             THEN LET r == RetryMatch(line)
                      withMax == IF AtoiOK(r.max)
                                 THEN [test EXCEPT !.RetryMax = ParseIntVal(r.max)] ELSE test
                  IN  ScanOptions(lines, i + 1,
                          IF ParseDuration(r.every).ok
                          THEN [withMax EXCEPT !.RetryDelay = ParseDuration(r.every).d]
                          ELSE withMax)
             ELSE IF HeaderMatch(line).ok
             THEN LET h == HeaderMatch(line)
                  IN  ScanOptions(lines, i + 1,
                          [test EXCEPT !.Headers = SetHeader(@, h.name, h.value),
                                       !.ContentType =
                                           IF EqualFold(h.name, s_ContentTypeName)
                                           THEN h.value ELSE @])
             ELSE IF StopsScan(line) THEN test
             ELSE ScanOptions(lines, i + 1, test)

\* every Content-Type the loop over the default headers can leave
\* (parser.go:131-136): the value of the name visited last among those that
\* fold to Content-Type, in Go's unspecified map order
DefaultContentTypes(headers) ==
    LET ks == {k \in DOMAIN headers : EqualFold(k, s_ContentTypeName)}
    IN  IF ks = {} THEN {<<>>} ELSE {headers[k] : k \in ks}

\* the Content-Type the default headers set when at most one of their
\* names folds to Content-Type
DefaultContentType(headers) ==
    CHOOSE ct \in DefaultContentTypes(headers) : TRUE

s_form == <<"f", "o", "r", "m">>
s_applicationJson == <<"a", "p", "p", "l", "i", "c", "a", "t", "i", "o", "n", "/", "j", "s", "o", "n">>
s_applicationForm == <<"a", "p", "p", "l", "i", "c", "a", "t", "i", "o", "n", "/", "x", "-", "w", "w", "w", "-", "f", "o", "r", "m", "-", "u", "r", "l", "e", "n", "c", "o", "d", "e", "d">>

\* (?s)```(json|form)\s*\n(.+?)``` matched at position p of content
BodyBlockAt(content, p) ==
    LET open == SubSeq(content, p, Len(content))
        tag == IF HasPrefix(open, s_fence \o s_json) THEN s_json
               ELSE IF HasPrefix(open, s_fence \o s_form) THEN s_form
               ELSE <<>>
    IN  IF tag = <<>> THEN [ok |-> FALSE, type |-> <<>>, block |-> <<>>]
        ELSE [ok |-> CodeBlockAfterTag(content, p + 7).ok, type |-> tag,
              block |-> CodeBlockAfterTag(content, p + 7).block]

\* codeBlockPattern.FindStringSubmatch(content): the leftmost match
BodyBlock(content) ==
    LET starts == {p \in 1..Len(content) : BodyBlockAt(content, p).ok}
    IN  IF starts = {} THEN [ok |-> FALSE, type |-> <<>>, block |-> <<>>]
        ELSE BodyBlockAt(content, CHOOSE p \in starts : \A m \in starts : p <= m)

\* if test.ContentType == "" { test.ContentType = ... } (parser.go:235-245)
BlockContentType(contentType, type) ==
    IF contentType # <<>> THEN contentType
    ELSE IF type = s_json THEN s_applicationJson
    ELSE s_applicationForm

\* the body block (parser.go:216-247); the blocks of the model hold no
\* FILE: reference, so the body is the trimmed text of the block
WithBodyBlock(test, content) ==
    LET m == BodyBlock(content)
    IN  IF ~m.ok THEN test
        ELSE [test EXCEPT !.Body = TrimSpace(m.block),
                          !.ContentType = BlockContentType(@, m.type)]

\* parseTestBlock once the loop over the default headers has left
\* defaultContentType (parser.go:138-252)
parseTestBlockFrom(name, content, defaults, baseDir, defaultContentType) ==
    LET lines == Lines(content)
        hits == {i \in 1..Len(lines) : HttpMatch(lines[i]).ok}
        test == [Name |-> name, Method |-> "GET", URL |-> <<>>,
                 Headers |-> defaults.Headers,
                 Body |-> <<>>, ContentType |-> defaultContentType,
                 Assertions |-> <<>>, SaveFields |-> <<>>,
                 WaitForStatus |-> 0, WaitForField |-> <<>>, WaitForValue |-> <<>>,
                 RetryDelay |-> 0, RetryMax |-> 0]
    IN  IF hits = {} THEN test
        ELSE LET idx == CHOOSE i \in hits : \A m \in hits : i <= m
                 m == HttpMatch(lines[idx])
                 withURL == [test EXCEPT !.Method = m.method,
                                         !.URL = ResolveURL(defaults.Root, m.target)]
             IN  IF withURL.URL = <<>> THEN withURL
                 ELSE [WithBodyBlock(ScanOptions(lines, idx + 1, withURL), content) EXCEPT
                          !.Assertions = parseAssertions(content, baseDir)]

\* every test parseTestBlock can return (parser.go:123-253)
parseTestBlockResults(name, content, defaults, baseDir) ==
    {parseTestBlockFrom(name, content, defaults, baseDir, ct) :
        ct \in DefaultContentTypes(defaults.Headers)}

\* parseTestBlock on defaults with at most one name that folds to
\* Content-Type, where the result is one test
parseTestBlock(name, content, defaults, baseDir) ==
    parseTestBlockFrom(name, content, defaults, baseDir,
                       DefaultContentType(defaults.Headers))

s_h == <<"h">>
s_A == <<"A">>
s_B == <<"B">>

\* the targets of the request lines: rooted path, bare path, absolute URLs,
\* and a scheme in capitals
Targets == {<<"/", "p">>, <<"p">>, <<"h", "t", "t", "p", ":", "/", "/", "o">>, <<"h", "t", "t", "p", "s", ":", "/", "/", "o">>, <<"H", "T", "T", "P", ":", "/", "/", "o">>}

\* request lines alone, after a line of prose or not, under a root or none
UrlBlocks ==
    {[content |-> prose \o MethodChars[k] \o gap \o t,
      defaults |-> [Root |-> r, Headers |-> EmptyMap]] :
        k \in 1..5, t \in Targets, gap \in {<<" ">>, <<" ", " ">>},
        prose \in {<<>>, <<"x", "\n">>}, r \in {<<>>, s_h}}

\* the lines that follow a request line: header, wait and retry bullets, a
\* retry bullet whose delay holds a colon, a bullet of prose, a blank line
OptLines ==
    {<<"-", " ", "A", ":", " ", "t">>, <<"-", " ", "W", "a", "i", "t", " ", "u", "n", "t", "i", "l", " ", "s", "t", "a", "t", "u", "s", " ", "i", "s", " ", "2", "0", "0">>, <<"-", " ", "w", "a", "i", "t", " ", "u", "n", "t", "i", "l", " ", "f", "i", "e", "l", "d", " ", "tick", "f", "tick", " ", "e", "q", "u", "a", "l", "s", " ", "tick", "v", "tick">>,
     <<"-", " ", "R", "e", "t", "r", "y", " ", "3", " ", "t", "i", "m", "e", "s", " ", "e", "v", "e", "r", "y", " ", "1", "s">>, <<"-", " ", "R", "e", "t", "r", "y", " ", "2", " ", "t", "i", "m", "e", "s", " ", "e", "v", "e", "r", "y", " ", "a", ":", "b">>, <<"-", " ", "n", "o", "t", "e">>, <<>>}

\* a request line followed by up to MaxOptLines such lines, in a file whose
\* frontmatter set a root and the headers A and B
OptBlocks ==
    {[content |-> JoinLines(<<<<"G", "E", "T", " ", "/", "p">>>> \o ls),
      defaults |-> [Root |-> s_h, Headers |-> (s_A :> <<"d">>) @@ (s_B :> <<"e">>)]] :
        ls \in SeqsUpTo(OptLines, MaxOptLines)}

InitBlock ==
    \E b \in UrlBlocks \cup OptBlocks :
        InitParse("parseTestBlock", [content |-> b.content, defaults |-> b.defaults])

\* the call parseTestBlock(testName, blockContent, defaults, baseDir)
\* (parser.go:36)
CallParseTestBlock ==
    /\ mode = "parse"
    /\ parseIn.fn = "parseTestBlock"
    /\ parseOut = NoOutput
    /\ parseOut' = [fn |-> "parseTestBlock",
                    test |-> parseTestBlock("t", parseIn.content, parseIn.defaults, <<>>)]
    /\ UNCHANGED <<mode, testFiles, maxWorkers, job, cur, sem, results, writes,
                   passed, failed, printed, mainpc, parseIn, timing, quiet>>

SpecBlock == InitBlock /\ [][CallParseTestBlock]_vars

\* parseTestBlock has returned
BlockParsed == parseOut # NoOutput /\ parseOut.fn = "parseTestBlock"

\* the index of the request line of the block and its target
RequestLine ==
    LET ls == Lines(parseIn.content)
    IN  CHOOSE i \in 1..Len(ls) :
            HttpMatch(ls[i]).ok /\ \A m \in 1..(i - 1) : ~HttpMatch(ls[m]).ok

TargetOfBlock == HttpMatch(Lines(parseIn.content)[RequestLine]).target

\* C17: URL resolution: a target starting with `/` under root R gives R+P; a
\* target starting with http:// or https:// is used unchanged whatever the
\* root; any other target under a root gives R + "/" + target; with no root
\* a non-absolute target is passed through verbatim.
C17_UrlResolution ==
    BlockParsed =>
        LET R == parseIn.defaults.Root
            P == TargetOfBlock
            url == parseOut.test.URL
        IN  /\ (HasPrefix(P, s_slash) /\ R # <<>>) => url = R \o P
            /\ (HasPrefix(P, s_http) \/ HasPrefix(P, s_https)) => url = P
            /\ (~HasPrefix(P, s_slash) /\ ~HasPrefix(P, s_http) /\ ~HasPrefix(P, s_https)
                   /\ R # <<>>) => url = R \o s_slash \o P
            /\ (R = <<>> /\ ~HasPrefix(P, s_http) /\ ~HasPrefix(P, s_https)) => url = P

\* an absolute URL was parsed under a root and came out unchanged
C17_Witness ==
    /\ BlockParsed
    /\ parseIn.defaults.Root = s_h
    /\ TargetOfBlock = <<"h", "t", "t", "p", "s", ":", "/", "/", "o">>
    /\ parseOut.test.URL = <<"h", "t", "t", "p", "s", ":", "/", "/", "o">>
    /\ parseOut.test.Method = "POST"

\* the option lines of the block that the scan reaches: those after the
\* request line and before the first non-blank line that is no wait, retry
\* or header bullet
IsOption(line) ==
    \/ WaitStatusMatch(line).ok
    \/ WaitFieldMatch(line).ok
    \/ RetryMatch(line).ok
    \/ HeaderMatch(line).ok

IsHeaderBullet(line) ==
    /\ HeaderMatch(line).ok
    /\ ~WaitStatusMatch(line).ok
    /\ ~WaitFieldMatch(line).ok
    /\ ~RetryMatch(line).ok

FirstUnmatched ==
    LET ls == Lines(parseIn.content)
        un == {i \in (RequestLine + 1)..Len(ls) :
                  TrimSpace(ls[i]) # <<>> /\ ~IsOption(ls[i])}
    IN  IF un = {} THEN Len(ls) + 1 ELSE CHOOSE i \in un : \A m \in un : i <= m

Reached == (RequestLine + 1)..(FirstUnmatched - 1)

\* the header bullets of the test itself that name a header
OwnBullets(name) ==
    {i \in Reached : IsHeaderBullet(Lines(parseIn.content)[i])
                        /\ HeaderMatch(Lines(parseIn.content)[i]).name = name}

OwnNames ==
    {HeaderMatch(Lines(parseIn.content)[i]).name :
        i \in {x \in Reached : IsHeaderBullet(Lines(parseIn.content)[x])}}

ReachedWhere(Kind(_)) == {i \in Reached : Kind(Lines(parseIn.content)[i])}

LastOf(S) == CHOOSE i \in S : \A m \in S : m <= i

IsWaitStatus(line) == WaitStatusMatch(line).ok

IsWaitField(line) == ~WaitStatusMatch(line).ok /\ WaitFieldMatch(line).ok

IsRetry(line) ==
    ~WaitStatusMatch(line).ok /\ ~WaitFieldMatch(line).ok /\ RetryMatch(line).ok

AssertItems ==
    {[kind |-> "status", text |-> <<"-", " ", "S", "t", "a", "t", "u", "s", " ", "i", "s", " ", "2", "0", "0">>],
     [kind |-> "body_contains", text |-> <<"-", " ", "B", "o", "d", "y", " ", "c", "o", "n", "t", "a", "i", "n", "s", " ", "tick", "a", "tick">>],
     [kind |-> "unrecognised", text |-> <<"-", " ", "n", "o", "p", "e">>],
     [kind |-> "blank", text |-> <<>>],
     [kind |-> "prose", text |-> <<"x">>],
     [kind |-> "body_partial_match", text |-> <<"-", " ", "B", "o", "d", "y", " ", "p", "a", "r", "t", "i", "a", "l", "l", "y", " ", "m", "a", "t", "c", "h", "e", "s", ":", "\n", "tick", "tick", "tick", "j", "s", "o", "n", "\n", ">", ">", " ", "a", "\n", "tick", "tick", "tick">>],
     [kind |-> "partial_unmarked", text |-> <<"-", " ", "B", "o", "d", "y", " ", "p", "a", "r", "t", "i", "a", "l", "l", "y", " ", "m", "a", "t", "c", "h", "e", "s", ":", "\n", "tick", "tick", "tick", "\n", "b", "\n", "tick", "tick", "tick">>]}

AssertHeaders == {<<"A", "s", "s", "e", "r", "t", ":">>, <<"A", "s", "s", "e", "r", "t", "s", ":", " ">>}

ItemTexts(items) == [i \in 1..Len(items) |-> items[i].text]

InitAssert ==
    \E items \in SeqsUpTo(AssertItems, MaxAssertItems), h \in AssertHeaders :
        InitParse("parseAssertions",
                  [content |-> JoinLines(<<<<"G", "E", "T", " ", "/", "p">>, h>> \o ItemTexts(items)),
                   items |-> items])

\* the call parseAssertions(content, baseDir) (parser.go:250)
CallParseAssertions ==
    /\ mode = "parse"
    /\ parseIn.fn = "parseAssertions"
    /\ parseOut = NoOutput
    /\ parseOut' = [fn |-> "parseAssertions",
                    assertions |-> parseAssertions(parseIn.content, <<>>)]
    /\ UNCHANGED <<mode, testFiles, maxWorkers, job, cur, sem, results, writes,
                   passed, failed, printed, mainpc, parseIn, timing, quiet>>

SpecAssert == InitAssert /\ [][CallParseAssertions]_vars

AssertionsParsed == parseOut # NoOutput /\ parseOut.fn = "parseAssertions"

TypesOf(assertions) == [i \in 1..Len(assertions) |-> assertions[i].Type]

Recognised(kind) ==
    kind \in {"status", "body_contains", "body_partial_match", "partial_unmarked"}

\* read line by line: the bullets up to the first non-blank line that is no
\* bullet (a line of prose, or the fence under a partial-match bullet), one
\* assertion for each recognised bullet
RECURSIVE OneForEachBulletBeforeNonBullet(_)
OneForEachBulletBeforeNonBullet(items) ==
    IF Len(items) = 0 \/ items[1].kind = "prose" THEN <<>>
    ELSE IF items[1].kind \in {"body_partial_match", "partial_unmarked"}
         THEN <<"body_partial_match">>
         ELSE (IF Recognised(items[1].kind) THEN <<items[1].kind>> ELSE <<>>)
              \o OneForEachBulletBeforeNonBullet(Tail(items))

\* C20: parseAssertions consumes the bullets after the first Assert(s): line
\* in order, skipping blank lines, and stops at the first non-blank line
\* that is no bullet; each recognised bullet yields exactly one assertion,
\* in document order; an unrecognised bullet yields none and does not stop
\* the scan.
C20_OneAssertionPerBullet ==
    AssertionsParsed =>
        TypesOf(parseOut.assertions) = OneForEachBulletBeforeNonBullet(parseIn.items)

\* the fenced block under a partial-match bullet belongs to the bullet: the
\* scan goes on after its closing fence, and the bullet yields an assertion
\* only when the block holds a marked line
RECURSIVE BulletsWithTheirBlocks(_)
BulletsWithTheirBlocks(items) ==
    IF Len(items) = 0 \/ items[1].kind = "prose" THEN <<>>
    ELSE (IF items[1].kind \in {"status", "body_contains", "body_partial_match"}
          THEN <<items[1].kind>> ELSE <<>>)
         \o BulletsWithTheirBlocks(Tail(items))

\* C20 (as the code has it): the scan stops at the first non-blank line that
\* is neither a bullet nor part of the fenced block of a partial-match
\* bullet; each single-line recognised bullet yields exactly one assertion,
\* a partial-match bullet one if its block has a marked line and none
\* otherwise, in document order; unrecognised bullets yield nothing and do
\* not stop the scan.
C20_BulletsAndBlocksInOrder ==
    AssertionsParsed =>
        /\ TypesOf(parseOut.assertions) = BulletsWithTheirBlocks(parseIn.items)
        /\ \A k \in 1..Len(parseOut.assertions) :
              LET a == parseOut.assertions[k]
              IN  /\ a.Type = "status" => a.Value = <<"2", "0", "0">>
                  /\ a.Type = "body_contains" => a.Field = <<"a">>
                  /\ a.Type = "body_partial_match" => a.Value = <<"a">>

\* a partial-match bullet with its block, an unrecognised bullet and a
\* status bullet: the scan went past the block and the unrecognised bullet
C20_Witness ==
    /\ AssertionsParsed
    /\ Len(parseIn.items) = 3
    /\ parseIn.items[1].kind = "body_partial_match"
    /\ parseIn.items[2].kind = "unrecognised"
    /\ parseIn.items[3].kind = "status"
    /\ TypesOf(parseOut.assertions) = <<"body_partial_match", "status">>

(***************************************************************************)
(* interpolateVariables as a function of a text and a store                *)
(* (http.go:17-27).                                                        *)
(***************************************************************************)
s_y == <<"y">>
s_z == <<"z">>

\* a store handed to interpolateVariables: a nil map, or a map (which may be
\* empty)
NilStore == [isNil |-> TRUE, m |-> EmptyMap]

StoreOf(m) == [isNil |-> FALSE, m |-> m]

\* the call interpolateVariables(s, vars): the nil check of http.go:18-20,
\* then the loop over the map
InterpolateCall(s, store) ==
    IF store.isNil THEN {s} ELSE interpolateVariables(s, store.m)

\* the pieces the texts are made of: the placeholders of x, y and z and two
\* plain characters
TextPieces == {Placeholder(s_x), Placeholder(s_y), Placeholder(s_z), <<"a">>, <<"-">>}

RECURSIVE Concat(_)
Concat(ss) == IF Len(ss) = 0 THEN <<>> ELSE ss[1] \o Concat(Tail(ss))

InterpTexts == {Concat(ps) : ps \in SeqsUpTo(TextPieces, MaxPieces)}

\* the values stored: a JSON number, a string, a string that reads as the
\* placeholder of y, a boolean and null
StoreValues == {VFloat(7), VStr(<<"a">>), VStr(Placeholder(s_y)), VBool(TRUE), VNil}

\* the stores: nil, empty, and every map over names among x and y
InterpStores ==
    {NilStore}
    \cup {StoreOf(m) : m \in UNION {[D -> StoreValues] : D \in SUBSET {s_x, s_y}}}

InitInterpolate ==
    \E s \in InterpTexts, st \in InterpStores :
        InitParse("interpolateVariables", [s |-> s, vars |-> st])

\* one call of interpolateVariables; the map is ranged over in any order
CallInterpolate ==
    /\ mode = "parse"
    /\ parseIn.fn = "interpolateVariables"
    /\ parseOut = NoOutput
    /\ \E r \in InterpolateCall(parseIn.s, parseIn.vars) :
           parseOut' = [fn |-> "interpolateVariables", result |-> r]
    /\ UNCHANGED <<mode, testFiles, maxWorkers, job, cur, sem, results, writes,
                   passed, failed, printed, mainpc, parseIn, timing, quiet>>

SpecInterpolate == InitInterpolate /\ [][CallInterpolate]_vars

Interpolated == mode = "parse" /\ parseOut.fn = "interpolateVariables"

\* the text with every placeholder of a stored name replaced, in one pass
\* from left to right, by the string form of the value stored under it;
\* everything else is copied
RECURSIVE EveryPlaceholderReplaced(_, _)
EveryPlaceholderReplaced(s, m) ==
    IF Len(s) = 0 THEN <<>>
    ELSE IF \E n \in DOMAIN m : HasPrefix(s, Placeholder(n))
         THEN LET n == CHOOSE k \in DOMAIN m : HasPrefix(s, Placeholder(k))
              IN  Sprintf(m[n])
                  \o EveryPlaceholderReplaced(SubSeq(s, Len(Placeholder(n)) + 1, Len(s)), m)
         ELSE <<s[1]>> \o EveryPlaceholderReplaced(Tail(s), m)

\* C21 as stated: interpolateVariables(text, vars) is the text with every
\* {{name}} of a stored name replaced by the default string form of the
\* value stored under name and every other placeholder left as it is; for a
\* nil or empty store it is the text itself.
C21_InterpolateContract ==
    Interpolated =>
        /\ parseOut.result = EveryPlaceholderReplaced(parseIn.s, parseIn.vars.m)
        /\ (parseIn.vars.isNil \/ parseIn.vars.m = EmptyMap) => parseOut.result = parseIn.s

\* the three parts of C21 on stores whose values hold no placeholder
NoPlaceholderValue(m) ==
    \A n \in DOMAIN m : m[n].k = "string" => ~Contains(m[n].s, <<"{", "{">>)

C21_PlainValues ==
    (Interpolated /\ NoPlaceholderValue(parseIn.vars.m)) =>
        /\ parseOut.result = EveryPlaceholderReplaced(parseIn.s, parseIn.vars.m)
        /\ (parseIn.vars.isNil \/ parseIn.vars.m = EmptyMap) => parseOut.result = parseIn.s

(***************************************************************************)
(* valuesEqual as a function of two interface values (http.go:403-414).    *)
(***************************************************************************)
\* Go's == on two interface values panics when both hold the same dynamic
\* type and that type is not comparable (map[string]interface{},
\* []interface{})
ComparePanics(a, b) == a.k = b.k /\ a.k \in {"map", "slice"}

\* the call valuesEqual(actual, expected): it panics at http.go:405 or
\* returns a boolean
ValuesEqualCall(actual, expected) ==
    IF ComparePanics(actual, expected) THEN [panic |-> TRUE, equal |-> FALSE]
    ELSE [panic |-> FALSE, equal |-> valuesEqual(actual, expected)]

s_a == <<"a">>
s_b == <<"b">>
s_42 == <<"4", "2">>

\* the values compared: the scalars of TestValuesEqual, null and the text
\* that renders like it, and arrays and an object with texts that render
\* like them
EqualityValues ==
    {VFloat(42), VInt(42), VStr(s_42), VBool(TRUE), VStr(s_true), VStr(s_a),
     VStr(s_b), VNil, VStr(s_nil),
     VArr(<<VStr(s_a)>>), VArr(<<VStr(s_a), VStr(s_b)>>), VArr(<<VStr(<<"a", " ", "b">>)>>),
     VStr(<<"[", "a", "]">>), VObj(s_a :> VFloat(1)), VObj(s_a :> VStr(<<"1">>)), VStr(<<"m", "a", "p", "[", "a", ":", "1", "]">>)}

InitValuesEqual ==
    \E a \in EqualityValues, b \in EqualityValues :
        InitParse("valuesEqual", [actual |-> a, expected |-> b])

CallValuesEqual ==
    /\ mode = "parse"
    /\ parseIn.fn = "valuesEqual"
    /\ parseOut = NoOutput
    /\ parseOut' = [fn |-> "valuesEqual"] @@ ValuesEqualCall(parseIn.actual, parseIn.expected)
    /\ UNCHANGED <<mode, testFiles, maxWorkers, job, cur, sem, results, writes,
                   passed, failed, printed, mainpc, parseIn, timing, quiet>>

SpecValuesEqual == InitValuesEqual /\ [][CallValuesEqual]_vars

Compared == mode = "parse" /\ parseOut.fn = "valuesEqual"

\* a and b are the same value of the same dynamic type
SameValue(a, b) == a.k = b.k /\ a = b

\* the call of the state is one of a given pair, in either order
ComparedPair(a, b) ==
    \/ parseIn.actual = a /\ parseIn.expected = b
    \/ parseIn.actual = b /\ parseIn.expected = a

\* C22 as stated: valuesEqual(a, b) returns true exactly when a and b are
\* equal or render to the same text; 42 and "42", true and "true", the JSON
\* number 42.0 and the integer 42 are equal, "a" and "b" are not; and the
\* call with the operands exchanged gives the same answer.
C22_TypeAwareEquality ==
    Compared =>
        /\ ~parseOut.panic
        /\ parseOut.equal <=>
               (\/ SameValue(parseIn.actual, parseIn.expected)
                \/ Sprintf(parseIn.actual) = Sprintf(parseIn.expected))
        /\ ComparedPair(VInt(42), VStr(s_42)) => parseOut.equal
        /\ ComparedPair(VBool(TRUE), VStr(s_true)) => parseOut.equal
        /\ ComparedPair(VFloat(42), VInt(42)) => parseOut.equal
        /\ ComparedPair(VStr(s_a), VStr(s_b)) => ~parseOut.equal
        /\ parseOut = [fn |-> "valuesEqual"] @@ ValuesEqualCall(parseIn.expected, parseIn.actual)

\* the same on the pairs that are not two arrays or two objects
C22_NotBothArraysOrObjects ==
    (Compared /\ ~(parseIn.actual.k = parseIn.expected.k
                   /\ parseIn.actual.k \in {"map", "slice"})) =>
        /\ ~parseOut.panic
        /\ parseOut.equal <=>
               (\/ SameValue(parseIn.actual, parseIn.expected)
                \/ Sprintf(parseIn.actual) = Sprintf(parseIn.expected))
        /\ ComparedPair(VInt(42), VStr(s_42)) => parseOut.equal
        /\ ComparedPair(VBool(TRUE), VStr(s_true)) => parseOut.equal
        /\ ComparedPair(VFloat(42), VInt(42)) => parseOut.equal
        /\ ComparedPair(VStr(s_a), VStr(s_b)) => ~parseOut.equal
        /\ parseOut = [fn |-> "valuesEqual"] @@ ValuesEqualCall(parseIn.expected, parseIn.actual)

(***************************************************************************)
(* getJSONField as a function of a decoded body and a path                 *)
(* (http.go:354-373).                                                      *)
(***************************************************************************)
s_name == <<"n", "a", "m", "e">>
s_nested == <<"n", "e", "s", "t", "e", "d">>
s_value == <<"v", "a", "l", "u", "e">>
s_list == <<"l", "i", "s", "t">>
s_missing == <<"m", "i", "s", "s", "i", "n", "g">>
s_0 == <<"0">>

\* the decoded bodies: the object of TestGetJSONField with an array and a
\* key that reads as a number added, an object whose nested member is a
\* scalar, and the nil map of a body that is not a JSON object
ExtractBodies ==
    {VObj((s_name :> VStr(<<"t", "e", "s", "t">>))
          @@ (s_nested :> VObj((s_value :> VStr(<<"d", "e", "e", "p">>))
                               @@ (s_nested :> VObj(s_name :> VStr(<<"f", "o", "u", "n", "d">>)))
                               @@ (s_list :> VArr(<<VObj(s_name :> VStr(s_a))>>))))
          @@ (s_list :> VArr(<<VStr(s_a), VStr(s_b)>>))
          @@ (s_0 :> VFloat(42))),
     VObj((s_nested :> VStr(s_a)) @@ (s_value :> VNil)),
     NilJSON}

PathSegments == {s_name, s_nested, s_value, s_list, s_missing, s_0}

InitExtract ==
    \E d \in ExtractBodies, segs \in SeqsUpTo(PathSegments, MaxSegments) :
        InitParse("getJSONField", [data |-> d, segs |-> segs, path |-> JoinWith(segs, <<".">>)])

CallGetJSONField ==
    /\ mode = "parse"
    /\ parseIn.fn = "getJSONField"
    /\ parseOut = NoOutput
    /\ parseOut' = [fn |-> "getJSONField"] @@ getJSONField(parseIn.data, parseIn.path)
    /\ UNCHANGED <<mode, testFiles, maxWorkers, job, cur, sem, results, writes,
                   passed, failed, printed, mainpc, parseIn, timing, quiet>>

SpecExtract == InitExtract /\ [][CallGetJSONField]_vars

ExtractDone == mode = "parse" /\ parseOut.fn = "getJSONField"

\* every segment is a key of the JSON object reached by the segments
\* before it
RECURSIVE EverySegmentIsAKey(_, _)
EverySegmentIsAKey(v, segs) ==
    \/ Len(segs) = 0
    \/ /\ v.k = "map"
       /\ segs[1] \in DOMAIN v.f
       /\ EverySegmentIsAKey(v.f[segs[1]], Tail(segs))

\* the value the segments before number i lead to, when they are all keys
RECURSIVE ReachedBy(_, _, _)
ReachedBy(v, segs, i) ==
    IF i = 1 THEN v ELSE ReachedBy(v.f[segs[1]], Tail(segs), i - 1)

IsJSONSpace(c) == c \in {" ", "\t", "\n", "\r"}

\* the first index from i on that holds no JSON whitespace (Len(s) + 1
\* when there is none)
RECURSIVE SkipWs(_, _)
SkipWs(s, i) ==
    IF i <= Len(s) /\ IsJSONSpace(s[i]) THEN SkipWs(s, i + 1) ELSE i

JSONFail == [ok |-> FALSE, v |-> VNil, next |-> 0]

HasAt(s, i, p) == i + Len(p) - 1 <= Len(s) /\ SubSeq(s, i, i + Len(p) - 1) = p

\* a string token that opens at i: the characters up to the next quote; a
\* raw line break inside it is a syntax error
ParseString(s, i) ==
    IF ~(i <= Len(s) /\ s[i] = "\"") THEN JSONFail
    ELSE LET close == {j \in (i + 1)..Len(s) : s[j] = "\""}
         IN  IF close = {} THEN JSONFail
             ELSE LET j == CHOOSE x \in close : \A y \in close : x <= y
                      body == SubSeq(s, i + 1, j - 1)
                  IN  IF \E m \in 1..Len(body) : body[m] \in {"\n", "\t", "\\"}
                      THEN JSONFail
                      ELSE [ok |-> TRUE, v |-> VStr(body), next |-> j + 1]

\* a number token that opens at i: an optional minus sign and digits
\* without a leading zero; it decodes to float64
ParseNumber(s, i) ==
    LET neg == i <= Len(s) /\ s[i] = "-"
        d == IF neg THEN i + 1 ELSE i
        run == DigitRun(SubSeq(s, d, Len(s)))
    IN  IF Len(run) = 0 \/ (Len(run) > 1 /\ run[1] = "0") THEN JSONFail
        ELSE IF d + Len(run) <= Len(s) /\ s[d + Len(run)] \in {".", "e", "E"}
             THEN JSONFail
             ELSE [ok |-> TRUE,
                   v |-> VFloat(IF neg THEN 0 - DigitsVal(run) ELSE DigitsVal(run)),
                   next |-> d + Len(run)]

RECURSIVE ParseValue(_, _)
RECURSIVE ParseMembers(_, _, _)
RECURSIVE ParseElements(_, _, _)

\* the members of an object from the key at i on; a key that comes again
\* replaces the member decoded before
ParseMembers(s, i, acc) ==
    LET key == ParseString(s, i)
        colon == SkipWs(s, key.next)
        val == ParseValue(s, SkipWs(s, colon + 1))
        after == SkipWs(s, val.next)
        members == (key.v.s :> val.v) @@ acc
    IN  IF ~key.ok THEN JSONFail
        ELSE IF ~(colon <= Len(s) /\ s[colon] = ":") THEN JSONFail
        ELSE IF ~val.ok THEN JSONFail
        ELSE IF after > Len(s) THEN JSONFail
        ELSE IF s[after] = "}" THEN [ok |-> TRUE, v |-> VObj(members), next |-> after + 1]
        ELSE IF s[after] = "," THEN ParseMembers(s, SkipWs(s, after + 1), members)
        ELSE JSONFail

\* the elements of an array from the value at i on
ParseElements(s, i, acc) ==
    LET val == ParseValue(s, i)
        after == SkipWs(s, val.next)
    IN  IF ~val.ok THEN JSONFail
        ELSE IF after > Len(s) THEN JSONFail
        ELSE IF s[after] = "]"
             THEN [ok |-> TRUE, v |-> VArr(Append(acc, val.v)), next |-> after + 1]
        ELSE IF s[after] = ","
             THEN ParseElements(s, SkipWs(s, after + 1), Append(acc, val.v))
        ELSE JSONFail

\* the value that opens at i (i holds no whitespace)
ParseValue(s, i) ==
    IF i > Len(s) THEN JSONFail
    ELSE IF s[i] = "{"
         THEN LET j == SkipWs(s, i + 1)
              IN  IF j <= Len(s) /\ s[j] = "}"
                  THEN [ok |-> TRUE, v |-> VObj(EmptyMap), next |-> j + 1]
                  ELSE ParseMembers(s, j, EmptyMap)
    ELSE IF s[i] = "["
         THEN LET j == SkipWs(s, i + 1)
              IN  IF j <= Len(s) /\ s[j] = "]"
                  THEN [ok |-> TRUE, v |-> VArr(<<>>), next |-> j + 1]
                  ELSE ParseElements(s, j, <<>>)
    ELSE IF s[i] = "\"" THEN ParseString(s, i)
    ELSE IF s[i] = "-" \/ IsDigit(s[i]) THEN ParseNumber(s, i)
    ELSE IF HasAt(s, i, s_true) THEN [ok |-> TRUE, v |-> VBool(TRUE), next |-> i + 4]
    ELSE IF HasAt(s, i, s_false) THEN [ok |-> TRUE, v |-> VBool(FALSE), next |-> i + 5]
    ELSE IF HasAt(s, i, <<"n", "u", "l", "l">>) THEN [ok |-> TRUE, v |-> VNil, next |-> i + 4]
    ELSE JSONFail

\* json.Unmarshal(text, &v) with v an interface{}: one value with
\* whitespace around it, or an error
Unmarshal(text) ==
    LET r == ParseValue(text, SkipWs(text, 1))
    IN  IF r.ok /\ SkipWs(text, r.next) = Len(text) + 1
        THEN [ok |-> TRUE, v |-> r.v]
        ELSE [ok |-> FALSE, v |-> VNil]

\* json.Unmarshal(respBody, &respJSON) with respJSON a
\* map[string]interface{} (http.go:126-127): the object, or the nil map when
\* the body is no JSON object (null leaves the map nil as well)
UnmarshalObject(text) ==
    LET r == Unmarshal(text)
    IN  IF r.ok /\ r.v.k = "map" THEN r.v ELSE NilJSON

\* json.Marshal(v): no whitespace, the keys of an object sorted
RECURSIVE Marshal(_)
Marshal(v) ==
    CASE v.k = "string" -> <<"\"">> \o v.s \o <<"\"">>
      [] v.k = "bool" -> IF v.b THEN s_true ELSE s_false
      [] v.k = "nil" -> <<"n", "u", "l", "l">>
      [] v.k = "float64" -> Sprintf(v)
      [] v.k = "slice" ->
            <<"[">> \o JoinWith([i \in 1..Len(v.a) |-> Marshal(v.a[i])], <<",">>) \o <<"]">>
      [] v.k = "map" ->
            LET ks == SortedKeys(DOMAIN v.f)
            IN  <<"{">>
                \o JoinWith([i \in 1..Len(ks) |->
                                <<"\"">> \o ks[i] \o <<"\"">> \o <<":">> \o Marshal(v.f[ks[i]])],
                            <<",">>)
                \o <<"}">>

(***************************************************************************)
(* validateAssertion as a function of an assertion, the response and the   *)
(* files on disk (http.go:166-302).                                        *)
(***************************************************************************)
\* variant: a JSON file is compared with the response byte for byte
BodyMatchesFile_Bytes(assertion, body, files) ==
    IF assertion.Value \notin DOMAIN files THEN "body matches file assertion failed"
    ELSE IF body # files[assertion.Value] THEN "body matches file assertion failed"
    ELSE "ok"

\* case "body_matches_file" (http.go:243-264); files holds the content of
\* every file os.ReadFile can read
BodyMatchesFile(assertion, body, files) ==
    IF assertion.Value \notin DOMAIN files THEN "body matches file assertion failed"
    ELSE LET expectedContent == files[assertion.Value]
             expectedJSON == Unmarshal(expectedContent)
             actualJSON == Unmarshal(body)
         IN  IF ~expectedJSON.ok
             THEN IF body # expectedContent
                  THEN "body matches file assertion failed" ELSE "ok"
             ELSE IF ~actualJSON.ok THEN "body matches file assertion failed"
             ELSE IF Marshal(expectedJSON.v) # Marshal(actualJSON.v)
                  THEN "body matches file assertion failed"
                  ELSE "ok"

\* a JSON text together with the value it denotes
Doc(text, v) == [text |-> text, json |-> TRUE, v |-> v]

\* a text that is no JSON
Raw(text) == [text |-> text, json |-> FALSE, v |-> VNil]

\* the values of object members: two numbers and an object written with
\* its keys out of order
MemberValues ==
    {Doc(<<"1">>, VFloat(1)), Doc(<<"2">>, VFloat(2)),
     Doc(<<"{", "\"", "b", "\"", ":", "2", ",", "\"", "a", "\"", ":", "1", "}">>, VObj((s_a :> VFloat(1)) @@ (s_b :> VFloat(2))))}

\* the member lists of an object: up to MaxMembers members with keys among
\* a and b, no key twice
MemberLists ==
    {<<>>}
    \cup {ms \in SeqsUpTo([key : {s_a, s_b}, val : MemberValues], MaxMembers) :
             \A i, j \in 1..Len(ms) : i # j => ms[i].key # ms[j].key}

\* an object text: the members in the order given, without whitespace or
\* with whitespace around every token
RenderObject(ms, spaced) ==
    LET sp == IF spaced THEN <<" ">> ELSE <<>>
        member(i) == <<"\"">> \o ms[i].key \o <<"\"">> \o sp \o <<":">> \o sp \o ms[i].val.text
    IN  (IF spaced THEN <<"\n">> ELSE <<>>)
        \o <<"{">> \o sp
        \o JoinWith([i \in 1..Len(ms) |-> member(i)], sp \o <<",">> \o sp)
        \o sp \o <<"}">> \o sp

ObjectOf(ms) ==
    VObj([k \in {ms[i].key : i \in 1..Len(ms)} |->
             (CHOOSE m \in {ms[i] : i \in 1..Len(ms)} : m.key = k).val.v])

\* the texts of files and response bodies: objects, other JSON values, and
\* texts that are no JSON
Docs ==
    {Doc(RenderObject(ms, sp), ObjectOf(ms)) : ms \in MemberLists, sp \in BOOLEAN}
    \cup {Doc(<<"[", "1", ",", "2", "]">>, VArr(<<VFloat(1), VFloat(2)>>)),
          Doc(<<"[", " ", "1", ",", " ", "2", " ", "]">>, VArr(<<VFloat(1), VFloat(2)>>)),
          Doc(<<"[", "2", ",", "1", "]">>, VArr(<<VFloat(2), VFloat(1)>>)),
          Doc(<<"\"", "a", "\"">>, VStr(s_a)), Doc(<<"n", "u", "l", "l">>, VNil), Doc(<<"t", "r", "u", "e">>, VBool(TRUE))}
    \cup {Raw(<<"h", "e", "l", "l", "o">>), Raw(<<"h", "e", "l", "l", "o", "\n">>), Raw(<<>>), Raw(<<"{", "\"", "a", "\"", ":", "1">>),
          Raw(<<"{", "a", ":", "1", "}">>), Raw(<<"{", "\"", "a", "\"", ":", "1", ",", "}">>), Raw(<<"{", "\"", "a", "\"", ":", "1", "}", " ", "x">>)}

s_file == <<"f", ".", "j", "s", "o", "n">>

MatchesFileAssertion == [Type |-> "body_matches_file", Field |-> <<>>, Value |-> s_file]

NoDoc == Raw(<<>>)

\* what a call of validateAssertion yields: it panics, or returns nil
\* ("ok") or an error, which for a status mismatch may carry a preview of
\* the response body
Outcome(e) == [err |-> e, panic |-> FALSE, hasResponse |-> FALSE, response |-> <<>>]

Panicked == [err |-> "none", panic |-> TRUE, hasResponse |-> FALSE, response |-> <<>>]

PreviewLimit == 500

s_ellipsis == <<".", ".", ".">>

\* variant: the preview is cut one byte later
bodyPreview_Late(body) ==
    IF Len(body) > PreviewLimit + 1
    THEN SubSeq(body, 1, PreviewLimit + 1) \o s_ellipsis ELSE body

\* bodyPreview of http.go:175-178; len and the slice count bytes
bodyPreview(body) ==
    IF Len(body) > PreviewLimit THEN SubSeq(body, 1, PreviewLimit) \o s_ellipsis ELSE body

\* case "status" (http.go:168-183)
StatusCheck(assertion, statusCode, body) ==
    IF ~AtoiOK(assertion.Value) THEN Outcome("invalid status code")
    ELSE IF statusCode # ParseIntVal(assertion.Value)
         THEN IF bodyPreview(body) # <<>>
              THEN [err |-> "status assertion failed", panic |-> FALSE,
                    hasResponse |-> TRUE, response |-> bodyPreview(body)]
              ELSE Outcome("status assertion failed")
         ELSE Outcome("ok")

\* the loop over the fields of one parsed line (http.go:289-297), visiting
\* them in the order given
RECURSIVE CheckFields(_, _, _)
CheckFields(jsonBody, parsed, order) ==
    IF Len(order) = 0 THEN Outcome("ok")
    ELSE LET got == getJSONField(jsonBody, order[1])
             eq == ValuesEqualCall(got.v, parsed[order[1]])
         IN  IF ~got.ok THEN Outcome("body partial match assertion failed")
             ELSE IF eq.panic THEN Panicked
             ELSE IF ~eq.equal THEN Outcome("body partial match assertion failed")
             ELSE CheckFields(jsonBody, parsed, Tail(order))

\* one line of assertion.Value (http.go:273-297): every outcome the map
\* order allows; "ok" lets the loop go on to the next line
LineOutcomes(jsonBody, line) ==
    LET trimmed == TrimSpace(line)
        parsed == Unmarshal(<<"{">> \o TrimSuffix(trimmed, <<",">>) \o <<"}">>)
    IN  IF trimmed = <<>> THEN {Outcome("ok")}
        ELSE IF ~(parsed.ok /\ parsed.v.k = "map")
             THEN {Outcome("body partial match assertion failed")}
             ELSE {CheckFields(jsonBody, parsed.v.f, o) : o \in Orders(DOMAIN parsed.v.f)}

RECURSIVE PartialLines(_, _)
PartialLines(jsonBody, lines) ==
    IF Len(lines) = 0 THEN {Outcome("ok")}
    ELSE UNION {IF o = Outcome("ok") THEN PartialLines(jsonBody, Tail(lines)) ELSE {o} :
                   o \in LineOutcomes(jsonBody, lines[1])}

\* variant: every field of the response must be named by a line
BodyPartialMatch_AllFields(assertion, jsonBody) ==
    IF jsonBody.k = "nilmap" THEN {Outcome("body partial match assertion failed")}
    ELSE {IF o = Outcome("ok")
             /\ \E k \in DOMAIN jsonBody.f :
                    \A i \in 1..Len(Lines(assertion.Value)) :
                        ~Contains(Lines(assertion.Value)[i], <<"\"">> \o k \o <<"\"">>)
          THEN Outcome("body partial match assertion failed") ELSE o :
             o \in PartialLines(jsonBody, Lines(assertion.Value))}

\* case "body_partial_match" (http.go:266-298)
BodyPartialMatch(assertion, jsonBody) ==
    IF jsonBody.k = "nilmap" THEN {Outcome("body partial match assertion failed")}
    ELSE PartialLines(jsonBody, Lines(assertion.Value))

\* validateAssertion(assertion, statusCode, body, jsonBody, duration): every
\* outcome of the call
ValidateAssertionCall(assertion, statusCode, body, jsonBody, files) ==
    CASE assertion.Type = "status" -> {StatusCheck(assertion, statusCode, body)}
      [] assertion.Type = "body_matches_file" ->
            {Outcome(BodyMatchesFile(assertion, body, files))}
      [] assertion.Type = "body_partial_match" -> BodyPartialMatch(assertion, jsonBody)
      [] OTHER -> {Outcome(validateAssertion(assertion, statusCode, jsonBody))}

\* a call of validateAssertion from the loop of http.go:146-150, with the
\* response decoded as http.go:126-127 decodes it
InitValidateWith(assertion, statusCode, body, files, about) ==
    InitParse("validateAssertion",
              [assertion |-> assertion, statusCode |-> statusCode, body |-> body,
               files |-> files, about |-> about])

CallValidateAssertion ==
    /\ mode = "parse"
    /\ parseIn.fn = "validateAssertion"
    /\ parseOut = NoOutput
    /\ \E o \in ValidateAssertionCall(parseIn.assertion, parseIn.statusCode, parseIn.body,
                                      UnmarshalObject(parseIn.body), parseIn.files) :
           parseOut' = [fn |-> "validateAssertion"] @@ o
    /\ UNCHANGED <<mode, testFiles, maxWorkers, job, cur, sem, results, writes,
                   passed, failed, printed, mainpc, parseIn, timing, quiet>>

\* body_matches_file: a file, or none, and a response body
InitMatchesFile ==
    \E file \in Docs \cup {NoDoc}, missing \in BOOLEAN, body \in Docs :
        /\ missing => file = NoDoc
        /\ InitValidateWith(MatchesFileAssertion, 200, body.text,
                            IF missing THEN EmptyMap ELSE (s_file :> file.text),
                            [file |-> file, missing |-> missing, body |-> body])

SpecMatchesFile == InitMatchesFile /\ [][CallValidateAssertion]_vars

Validated(type) ==
    mode = "parse" /\ parseOut.fn = "validateAssertion" /\ parseIn.assertion.Type = type

Passes == ~parseOut.panic /\ parseOut.err = "ok"

\* C24: with a readable expected file that is JSON, body_matches_file
\* passes exactly when the response body is JSON and denotes the same value
\* as the file, whatever the order of keys and the whitespace; with a file
\* that is no JSON it passes exactly when the response bytes are the file
\* bytes.
C24_MatchesFileByValueOrBytes ==
    (Validated("body_matches_file") /\ ~parseIn.about.missing) =>
        LET file == parseIn.about.file
            body == parseIn.about.body
        IN  /\ ~parseOut.panic
            /\ file.json => (Passes <=> (body.json /\ body.v = file.v))
            /\ ~file.json => (Passes <=> body.text = file.text)

\* the file holds an object with two keys, the response the same object
\* with the keys the other way round and other whitespace, and the
\* assertion has passed
C24_Witness ==
    /\ Validated("body_matches_file")
    /\ ~parseIn.about.missing
    /\ parseIn.about.file.json /\ parseIn.about.body.json
    /\ parseIn.about.file.v = VObj((s_a :> VFloat(1)) @@ (s_b :> VFloat(2)))
    /\ parseIn.about.file.text = <<"{", "\"", "b", "\"", ":", "2", ",", "\"", "a", "\"", ":", "1", "}">>
    /\ parseIn.about.body.text # parseIn.about.file.text
    /\ Len(parseIn.about.body.text) > Len(parseIn.about.file.text)
    /\ HasPrefix(TrimSpace(parseIn.about.body.text), <<"{", " ", "\"", "a", "\"">>)
    /\ Passes

(***************************************************************************)
(* body_partial_match: from the lines of the fenced block to the verdict   *)
(* (parser.go:339-362, http.go:266-298).                                   *)
(***************************************************************************)
\* a line of the block: the key it names as path segments and its value
Fragment(text, segs, v) == [text |-> text, segs |-> segs, v |-> v]

s_url == <<"u", "r", "l">>
s_origin == <<"o", "r", "i", "g", "i", "n">>
s_tags == <<"t", "a", "g", "s">>
s_X == <<"X">>

\* the fragments: a string with and without a trailing comma, a second
\* string, a number written as a string, a boolean under a dotted key and an
\* array
Fragments ==
    {Fragment(<<"\"", "u", "r", "l", "\"", ":", " ", "\"", "X", "\"">>, <<s_url>>, VStr(s_X)),
     Fragment(<<"\"", "u", "r", "l", "\"", ":", " ", "\"", "X", "\"", ",">>, <<s_url>>, VStr(s_X)),
     Fragment(<<"\"", "o", "r", "i", "g", "i", "n", "\"", ":", " ", "\"", "Y", "\"">>, <<s_origin>>, VStr(<<"Y">>)),
     Fragment(<<"\"", "n", "\"", ":", " ", "\"", "1", "\"">>, <<<<"n">>>>, VStr(<<"1">>)),
     Fragment(<<"\"", "o", ".", "k", "\"", ":", " ", "t", "r", "u", "e">>, <<<<"o">>, <<"k">>>>, VBool(TRUE)),
     Fragment(<<"\"", "t", "a", "g", "s", "\"", ":", " ", "[", "\"", "a", "\"", "]">>, <<s_tags>>, VArr(<<VStr(s_a)>>))}

BlockItems == [marked : BOOLEAN, frag : Fragments]

\* the line of the block for an item: indented, with the marker when marked
BlockLine(item) ==
    IF item.marked THEN <<" ", " ", ">", ">", " ">> \o item.frag.text ELSE <<" ", " ">> \o item.frag.text

FullResponse(url, origin) ==
    (s_url :> VStr(url)) @@ (s_origin :> VStr(origin)) @@ (<<"n">> :> VFloat(1))
    @@ (<<"o">> :> VObj(<<"k">> :> VBool(TRUE))) @@ (s_tags :> VArr(<<VStr(s_a)>>))

\* the response bodies: the full object with either url and either origin,
\* objects with fewer fields, a JSON array and a text that is no JSON
PartialResponses ==
    {Doc(<<"{", "\"", "u", "r", "l", "\"", ":", "\"", "X", "\"", ",", "\"", "o", "r", "i", "g", "i", "n", "\"", ":", "\"", "Y", "\"", ",", "\"", "n", "\"", ":", "1", ",", "\"", "o", "\"", ":", "{", "\"", "k", "\"", ":", "t", "r", "u", "e", "}", ",", "\"", "t", "a", "g", "s", "\"", ":", "[", "\"", "a", "\"", "]", "}">>,
         VObj(FullResponse(s_X, <<"Y">>))),
     Doc(<<"{", "\"", "u", "r", "l", "\"", ":", "\"", "X", "\"", ",", "\"", "o", "r", "i", "g", "i", "n", "\"", ":", "\"", "W", "\"", ",", "\"", "n", "\"", ":", "1", ",", "\"", "o", "\"", ":", "{", "\"", "k", "\"", ":", "t", "r", "u", "e", "}", ",", "\"", "t", "a", "g", "s", "\"", ":", "[", "\"", "a", "\"", "]", "}">>,
         VObj(FullResponse(s_X, <<"W">>))),
     Doc(<<"{", "\"", "u", "r", "l", "\"", ":", "\"", "Z", "\"", ",", "\"", "o", "r", "i", "g", "i", "n", "\"", ":", "\"", "Y", "\"", ",", "\"", "n", "\"", ":", "1", ",", "\"", "o", "\"", ":", "{", "\"", "k", "\"", ":", "t", "r", "u", "e", "}", ",", "\"", "t", "a", "g", "s", "\"", ":", "[", "\"", "a", "\"", "]", "}">>,
         VObj(FullResponse(<<"Z">>, <<"Y">>))),
     Doc(<<"{", "\"", "u", "r", "l", "\"", ":", "\"", "X", "\"", "}">>, VObj(s_url :> VStr(s_X))),
     Doc(<<"{", "\"", "u", "r", "l", "\"", ":", "\"", "X", "\"", ",", "\"", "t", "a", "g", "s", "\"", ":", "\"", "[", "a", "]", "\"", ",", "\"", "o", "\"", ":", "\"", "k", "\"", "}">>,
         VObj((s_url :> VStr(s_X)) @@ (s_tags :> VStr(<<"[", "a", "]">>)) @@ (<<"o">> :> VStr(<<"k">>)))),
     Doc(<<"[", "1", "]">>, VArr(<<VFloat(1)>>)),
     Raw(<<"h", "e", "l", "l", "o">>)}

\* the assertion parseAssertions builds from the lines of the block
\* (parser.go:347-362)
PartialMatchAssertion(blockLines) ==
    Assertion("body_partial_match", <<>>, JoinLines(MarkedLines(blockLines)))

InitPartialMatch ==
    \E items \in SeqsUpTo(BlockItems, MaxBlockLines), resp \in PartialResponses :
        /\ \E i \in 1..Len(items) : items[i].marked
        /\ InitValidateWith(PartialMatchAssertion([i \in 1..Len(items) |-> BlockLine(items[i])]),
                            200, resp.text, EmptyMap,
                            [items |-> items, response |-> resp])

SpecPartialMatch == InitPartialMatch /\ [][CallValidateAssertion]_vars

\* the fragment's key resolves in the response to a value that is equal to
\* the fragment's value or renders to the same text
FragmentHolds(resp, frag) ==
    /\ resp.json
    /\ EverySegmentIsAKey(resp.v, frag.segs)
    /\ LET actual == ReachedBy(resp.v, frag.segs, Len(frag.segs) + 1)
       IN  SameValue(actual, frag.v) \/ Sprintf(actual) = Sprintf(frag.v)

MarkedFragments == {parseIn.about.items[i].frag : i \in {j \in 1..Len(parseIn.about.items) : parseIn.about.items[j].marked}}

\* C25 as stated: body_partial_match passes exactly when the key of every
\* marked fragment resolves in the response, by its dot path, to a value
\* type-aware-equal to the fragment's value; what the response holds under
\* other keys, and the lines that are not marked, do not matter.
C25_PartialMatchOnMarkedOnly ==
    Validated("body_partial_match") =>
        /\ ~parseOut.panic
        /\ Passes <=> \A frag \in MarkedFragments : FragmentHolds(parseIn.about.response, frag)

\* the same when no marked fragment has an array or an object as its value
C25_ScalarFragments ==
    (Validated("body_partial_match") /\ \A frag \in MarkedFragments : frag.v.k \notin {"slice", "map"}) =>
        /\ ~parseOut.panic
        /\ Passes <=> \A frag \in MarkedFragments : FragmentHolds(parseIn.about.response, frag)

(***************************************************************************)
(* The status assertion and its response preview (http.go:168-183).        *)
(***************************************************************************)
\* a response body of n bytes: of one-byte characters, of two-byte
\* characters (lead byte C3, continuation byte A9), or of one one-byte
\* character followed by two-byte characters
BodyOfBytes(n, kind) ==
    [i \in 1..n |->
        CASE kind = "ascii" -> "x"
          [] kind = "wide" -> IF i % 2 = 1 THEN "C3" ELSE "A9"
          [] kind = "shifted" -> IF i = 1 THEN "x" ELSE IF i % 2 = 0 THEN "C3" ELSE "A9"]

\* the body lengths: up to MaxOver bytes, and up to MaxOver bytes on either
\* side of the limit
PreviewLengths == (0..MaxOver) \cup ((PreviewLimit - MaxOver)..(PreviewLimit + MaxOver))

StatusAssertion(value) == Assertion("status", <<>>, value)

InitStatusPreview ==
    \E n \in PreviewLengths, kind \in {"ascii", "wide", "shifted"},
       statusCode \in {200, 404}, value \in {s_200, <<"2", "0", "1">>, <<"2", "x", "x">>} :
        InitValidateWith(StatusAssertion(value), statusCode, BodyOfBytes(n, kind), EmptyMap,
                         [kind |-> kind])

SpecStatusPreview == InitStatusPreview /\ [][CallValidateAssertion]_vars

\* the status assertion names a code and the response has another
StatusMismatch ==
    /\ Validated("status")
    /\ AtoiOK(parseIn.assertion.Value)
    /\ parseIn.statusCode # ParseIntVal(parseIn.assertion.Value)

\* the characters that begin in a run of bytes (every byte but a
\* continuation byte begins one)
CharCount(bytes) == Cardinality({i \in 1..Len(bytes) : bytes[i] # "A9"})

JobsOfFile(fi) == {i \in 1..N : Jobs[i].fileIndex = fi}

\* the durations of the calls of runTest for the tests of a file, added up
RECURSIVE SumOfDurations(_)
SumOfDurations(S) ==
    IF S = {} THEN 0
    ELSE LET i == CHOOSE x \in S : TRUE
         IN  timing.durations[i] + SumOfDurations(S \ {i})

C27_ParallelReported ==
    /\ mode = "par"
    /\ mainpc = "done"
    /\ \E k \in 1..Len(timing.reported) :
          LET fi == timing.reported[k].FileIndex
          IN  /\ Cardinality(JobsOfFile(fi)) = 2
              /\ {timing.durations[i] : i \in JobsOfFile(fi)} = {1}
              /\ timing.reported[k].Duration = 1

(***************************************************************************)
(* The Content-Type of a request: the frontmatter's headers, the header    *)
(* bullets and the body block of a test block (parser.go:123-253), and the *)
(* headers runTest sets on the request (http.go:91-97).                    *)
(***************************************************************************)
\* the header entries of the frontmatter: Content-Type as written in the
\* documentation, in lower case, with an empty value, and another header
DefaultHeaderEntries ==
    {[name |-> <<"C", "o", "n", "t", "e", "n", "t", "-", "T", "y", "p", "e">>, value |-> <<"a">>],
     [name |-> <<"c", "o", "n", "t", "e", "n", "t", "-", "t", "y", "p", "e">>, value |-> <<"b">>],
     [name |-> <<"C", "o", "n", "t", "e", "n", "t", "-", "T", "y", "p", "e">>, value |-> <<>>],
     [name |-> <<"A">>, value |-> <<"t">>]}

\* the header bullets of the test: Content-Type as written, in capitals,
\* and another header
BulletEntries ==
    {[name |-> <<"C", "o", "n", "t", "e", "n", "t", "-", "T", "y", "p", "e">>, value |-> <<"c">>],
     [name |-> <<"C", "O", "N", "T", "E", "N", "T", "-", "T", "Y", "P", "E">>, value |-> <<"d">>],
     [name |-> <<"A">>, value |-> <<"u">>]}

\* "  name: value" for every entry, one line each
RECURSIVE EntryLines(_, _)
EntryLines(entries, lead) ==
    IF entries = <<>> THEN <<>>
    ELSE <<lead \o entries[1].name \o <<":", " ">> \o entries[1].value>>
         \o EntryLines(Tail(entries), lead)

\* the file's frontmatter with these header entries
FrontmatterOf(entries) ==
    JoinLines(<<s_delim, s_headersKey>> \o EntryLines(entries, <<" ", " ">>) \o <<s_delim>>)

\* the body block of a test block: none, or a fence with this tag
BodyBlockLines(tag) ==
    IF tag = <<>> THEN <<>>
    ELSE <<<<>>, s_fence \o tag, <<"{", "}">>, s_fence>>

\* a test block: the request line, the bullets, the body block
BlockOf(bullets, tag) ==
    JoinLines(<<<<"G", "E", "T", " ", "/", "p">>>> \o EntryLines(bullets, <<"-", " ">>) \o BodyBlockLines(tag))

SeqsUpTo0(S, n) == {<<>>} \cup SeqsUpTo(S, n)

InitContentType ==
    \E fm \in SeqsUpTo0(DefaultHeaderEntries, MaxHeaderLines),
       bullets \in SeqsUpTo0(BulletEntries, MaxHeaderLines),
       tag \in {<<>>, s_json, s_form} :
        InitParse("send", [fm |-> fm, bullets |-> bullets, tag |-> tag,
                           defaults |-> parseFrontmatter(FrontmatterOf(fm)).defaults,
                           content |-> BlockOf(bullets, tag)])

\* the block is parsed under the file's defaults (parser.go:36) and the
\* headers of the first attempt's request are set (http.go:91-97); the
\* header values of the model hold no placeholder
CallSend ==
    /\ mode = "parse"
    /\ parseIn.fn = "send"
    /\ parseOut = NoOutput
    /\ \E test \in parseTestBlockResults("t", parseIn.content, parseIn.defaults, <<>>) :
          \E sent \in RequestHeaderSets(test.Headers, test.ContentType) :
              parseOut' = [fn |-> "send", test |-> test, sent |-> sent]
    /\ UNCHANGED <<mode, testFiles, maxWorkers, job, cur, sem, results, writes,
                   passed, failed, printed, mainpc, parseIn, timing, quiet>>

SpecContentType == InitContentType /\ [][CallSend]_vars

\* the request of the block has been built
Sent == parseOut.fn = "send"

IsContentType(e) == EqualFold(e.name, s_ContentTypeName)

\* the Content-Type a body block with this tag stands for
TypeOfTag(tag) == IF tag = s_json THEN s_applicationJson ELSE s_applicationForm

\* the request carries this Content-Type and no other, whatever the
\* capitalisation of the name
SendsContentType(sent, contentType) ==
    /\ \E k \in DOMAIN sent : EqualFold(k, s_ContentTypeName)
    /\ \A k \in DOMAIN sent : EqualFold(k, s_ContentTypeName) => sent[k] = contentType

\* C28: the test's ContentType is the value of the last header whose name
\* folds to Content-Type, the frontmatter's entries read before the test's
\* bullets; a json or form body block sets it to application/json or
\* application/x-www-form-urlencoded only when no such header set it; and
\* when it is not empty the request carries it as its only Content-Type
C28_ContentTypeContract ==
    Sent =>
        LET named == SelectSeq(parseIn.fm \o parseIn.bullets, IsContentType)
            expected == IF named # <<>> THEN named[Len(named)].value
                        ELSE IF parseIn.tag # <<>> THEN TypeOfTag(parseIn.tag)
                        ELSE <<>>
        IN  /\ parseOut.test.ContentType = expected
            /\ expected # <<>> => SendsContentType(parseOut.sent, expected)

\* C28 (as the code has it): the last bullet that folds to Content-Type
\* gives the ContentType; without one it is the value of some frontmatter
\* entry that folds to Content-Type; a body block sets it when it is empty
\* by then; and when it is not empty the request carries it as its only
\* Content-Type
C28_LastBulletOrSomeDefault ==
    Sent =>
        LET named == SelectSeq(parseIn.bullets, IsContentType)
            fromHeaders == IF named # <<>> THEN {named[Len(named)].value}
                           ELSE DefaultContentTypes(parseIn.defaults.Headers)
            final(ct) == IF ct = <<>> /\ parseIn.tag # <<>> THEN TypeOfTag(parseIn.tag)
                         ELSE ct
        IN  /\ parseOut.test.ContentType \in {final(ct) : ct \in fromHeaders}
            /\ parseOut.test.ContentType # <<>> =>
                   SendsContentType(parseOut.sent, parseOut.test.ContentType)

\* C28 on the inputs where one reading is possible: the frontmatter holds
\* at most one spelling of Content-Type and no header has an empty value
C28_OneSpellingNoEmptyValue ==
    (/\ Sent
     /\ Cardinality({parseIn.fm[i].name :
                         i \in {k \in 1..Len(parseIn.fm) : IsContentType(parseIn.fm[k])}}) <= 1
     /\ \A i \in 1..Len(parseIn.fm) : parseIn.fm[i].value # <<>>)
    => C28_ContentTypeContract

\* a frontmatter entry in lower case, a bullet in capitals and a json body
\* block: the request carries the bullet's value under Content-Type alone
C28_Witness ==
    /\ Sent
    /\ \E i \in 1..Len(parseIn.fm) : parseIn.fm[i].name = <<"c", "o", "n", "t", "e", "n", "t", "-", "t", "y", "p", "e">>
    /\ \E i \in 1..Len(parseIn.bullets) : parseIn.bullets[i].name = <<"C", "O", "N", "T", "E", "N", "T", "-", "T", "Y", "P", "E">>
    /\ parseIn.tag = s_json
    /\ parseOut.test.ContentType = <<"d">>
    /\ parseOut.sent = (s_ContentType :> <<"d">>)

(***************************************************************************)
(* Quiet mode: the runners called with quiet true or false on files of     *)
(* tests that pass or fail by the response they get.                       *)
(***************************************************************************)
QuietCatalogue == {[n |-> "plain", m |-> 0]}

InitQuiet ==
    \E tf \in FileLists(QuietCatalogue, MaxFiles, MaxTests, MaxJobs), q \in BOOLEAN :
        \/ InitRunner("seq", tf, 1, q)
        \/ \E k \in 1..MaxWorkers : InitRunner("par", tf, k, q)

SpecQuiet == InitQuiet /\ [][NextSched]_vars

\* the tests whose call of runTest returned an error
FailedTests == {i \in 1..N : job[i].err # "none"}

\* the tests a result line was written for
LinesOf(i) == {k \in 1..Len(printed) : printed[k].Index = i}

OnlyOf(digits) == DigitsVal(digits)

\* the digits written after --only=: 0 to MaxOnly, and 2 with a zero in
\* front
OnlyArgs == {<<DigitChars[n + 1]>> : n \in 0..MaxOnly} \cup {<<"0", "2">>}

\* the tests that can be told apart by their outcome: one that is sent
\* and one whose request cannot be built
OnlyCatalogue == {[n |-> nm, m |-> 0] : nm \in {"plain", "badurl"}}

\* what collectTestFiles returns: the files that hold a test, none when
\* the target holds no test
CollectedFiles == {<<>>} \cup FileLists(OnlyCatalogue, MaxFiles, MaxTests, MaxJobs)

InitOnly ==
    \E only \in OnlyArgs, skip \in {0, 1}, startFrom \in {0, 1},
       files \in CollectedFiles, par \in BOOLEAN, q \in BOOLEAN, k \in 1..MaxWorkers :
        /\ mode = "main"
        /\ parseIn = [fn |-> "main", only |-> only, skip |-> skip, startFrom |-> startFrom,
                      files |-> files, parallel |-> par, quiet |-> q]
        /\ parseOut = NoOutput
        /\ testFiles = <<>>
        /\ maxWorkers = k
        /\ job = <<>>
        /\ cur = 1
        /\ sem = 0
        /\ results = <<>>
        /\ writes = <<>>
        /\ passed = 0
        /\ failed = 0
        /\ printed = <<>>
        /\ mainpc = "run"
        /\ timing = NoTiming(0)
        /\ quiet = FALSE

\* variant: the filter keeps the first test
FilterOnly_First(files, only) ==
    <<<<[n |-> FlattenFrom(files, 1)[1].test.n, m |-> FlattenFrom(files, 1)[1].test.m,
         num |-> only]>>>>

\* testFiles = []TestFile{{Path: tf.Path, Tests: []Test{test}}} for the
\* test at position only of the walk over the files and their tests, its
\* name given the suffix (#only), which is the field num (part_002:256-267)
FilterOnly(files, only) ==
    <<<<[n |-> FlattenFrom(files, 1)[only].test.n, m |-> FlattenFrom(files, 1)[only].test.m,
         num |-> only]>>>>

\* what main does before it calls a runner: exit with a message, or the
\* files handed to the runner (part_002:178-271)
MainFilter(in) ==
    LET only == OnlyOf(in.only)
        totalTests == Len(FlattenFrom(in.files, 1))
        exit(status, msg) == [run |-> FALSE, status |-> status, msg |-> msg, files |-> <<>>]
    IN  IF only < 1 THEN exit(1, "--only requires a positive integer")
        ELSE IF in.skip > 0 THEN exit(1, "--only and --skip cannot be used together")
        ELSE IF in.startFrom > 0
        THEN exit(1, "--only and --start-from cannot be used together")
        ELSE IF Len(in.files) = 0 THEN exit(0, "No test files found.")
        ELSE IF totalTests = 0 THEN exit(0, "No tests found.")
        ELSE IF only > totalTests THEN exit(1, "test does not exist")
        ELSE [run |-> TRUE, status |-> 0, msg |-> "", files |-> FilterOnly(in.files, only)]

\* main up to the call of runTestsSequential or runTestsParallel
Main ==
    /\ mode = "main"
    /\ mainpc = "run"
    /\ LET f == MainFilter(parseIn)
       IN  IF f.run
           THEN /\ mode' = IF parseIn.parallel THEN "par" ELSE "seq"
                /\ testFiles' = f.files
                /\ job' = [i \in 1..Len(FlattenFrom(f.files, 1)) |->
                              NewJob(FlattenFrom(f.files, 1)[i].test)]
                /\ results' = [i \in 1..Len(FlattenFrom(f.files, 1)) |-> NoResult]
                /\ timing' = NoTiming(Len(FlattenFrom(f.files, 1)))
                /\ quiet' = parseIn.quiet
                /\ UNCHANGED <<mainpc, parseOut>>
           ELSE /\ mainpc' = "done"
                /\ parseOut' = [fn |-> "main", status |-> f.status, msg |-> f.msg]
                /\ UNCHANGED <<mode, testFiles, job, results, timing, quiet>>
    /\ UNCHANGED <<maxWorkers, cur, sem, writes, passed, failed, printed, parseIn>>

NextOnly == Main \/ NextSched

SpecOnly == InitOnly /\ [][NextOnly]_vars

\* --only=N with N at least 1 and no other filter, and main is over
OnlyDone ==
    /\ parseIn.fn = "main"
    /\ mainpc = "done"
    /\ OnlyOf(parseIn.only) >= 1
    /\ parseIn.skip = 0
    /\ parseIn.startFrom = 0

AllTests == FlattenFrom(parseIn.files, 1)

\* a runner ran exactly the test at position n of the collected files,
\* once
RanOnlyTheNth(n) ==
    /\ mode \in {"seq", "par"}
    /\ N = 1
    /\ [n |-> Jobs[1].test.n, m |-> Jobs[1].test.m] = AllTests[n].test
    /\ job[1].pc = "done"
    /\ job[1].nreq = (IF AllTests[n].test.n = "badurl" THEN 0 ELSE 1)
    /\ passed + failed = 1

\* main left with an error before any test was run
ErrorAndNoRun ==
    /\ mode = "main"
    /\ parseOut.fn = "main"
    /\ parseOut.status = 1
    /\ job = <<>>
    /\ passed + failed = 0

\* C30: with --only=N the run is the one test at position N of the tests
\* of all files in file-then-document order, and N greater than the number
\* of tests is an error with no test run
C30_OnlyRunsTheNthTest ==
    OnlyDone =>
        IF OnlyOf(parseIn.only) > Len(AllTests) THEN ErrorAndNoRun
        ELSE RanOnlyTheNth(OnlyOf(parseIn.only))

\* C30 (as the code has it): as above when at least one test was found;
\* when none was, main reports that and returns with status 0 whatever N
\* is, and no test is run
C30_OnlyRunsTheNthTestIfAny ==
    OnlyDone =>
        IF Len(AllTests) = 0
        THEN /\ mode = "main"
             /\ parseOut.fn = "main"
             /\ parseOut.status = 0
             /\ job = <<>>
             /\ passed + failed = 0
        ELSE C30_OnlyRunsTheNthTest

\* --only=02 on two files of one test each: the second file's test is the
\* run
C30_Witness ==
    /\ OnlyDone
    /\ parseIn.only = <<"0", "2">>
    /\ Len(parseIn.files) = 2
    /\ AllTests[1].test # AllTests[2].test
    /\ RanOnlyTheNth(2)
    /\ Jobs[1].test.num = 2

\* --only=3 where two tests were found: an error, nothing run
C30_OutOfRange ==
    /\ OnlyDone
    /\ OnlyOf(parseIn.only) = 3
    /\ Len(AllTests) = 2
    /\ ErrorAndNoRun

(***************************************************************************)
(* The retry delay, the attempts of a test without a wait condition, the   *)
(* limit of attempts, and the termination of runTest.                      *)
(***************************************************************************)
\* C31: one retry delay elapses after every attempt but the last: while
\* the loop of a call is under way it has slept once per attempt made, and
\* when the call has returned after k attempts it has slept k - 1 times,
\* for (k - 1) times the delay in all; a wait timeout at max attempts M
\* has slept M - 1 times
C31_OneDelayBetweenAttempts ==
    \A i \in 1..N :
        LET j == job[i]
            t == TestAt(i)
        IN  /\ j.pc = "loop" => j.sleeps = j.attempt
            /\ Returned(j) =>
                  /\ j.attempt >= 1
                  /\ j.sleeps = j.attempt - 1
                  /\ j.slept = (j.attempt - 1) * RetryDelayOf(t)
            /\ (Returned(j) /\ j.err \in WaitTimeouts) =>
                  /\ j.attempt = RetryMaxOf(t)
                  /\ j.sleeps = RetryMaxOf(t) - 1

\* responses [500, 500, 200] under wait for status 200 with Retry 3: the
\* third attempt passes after two delays
C31_Witness ==
    \E i \in 1..N :
        /\ TestAt(i).WaitForStatus = 200
        /\ TestAt(i).RetryMax = 3
        /\ job[i].pc = "ret"
        /\ job[i].err = "none"
        /\ job[i].attempt = 3
        /\ job[i].sleeps = 2
        /\ job[i].slept = 2 * DefaultRetryDelay

\* a wait timeout at max attempts 2 after one delay
C31_TimeoutWitness ==
    \E i \in 1..N :
        /\ TestAt(i).RetryMax = 2
        /\ job[i].pc = "ret"
        /\ job[i].err \in WaitTimeouts
        /\ job[i].sleeps = 1

\* C32: a test without wait condition makes one attempt, whatever its
\* Retry count and delay and whatever comes back: it never sleeps, never
\* sends a second request, and has sent exactly one when it returns, the
\* call whose request could not be built aside, which sends none
C32_NoWaitOneRequest ==
    \A i \in 1..N :
        LET j == job[i]
        IN  ~HasWait(TestAt(i)) =>
              /\ j.attempt <= 1
              /\ j.nreq <= 1
              /\ j.sleeps = 0
              /\ (Returned(j) /\ j.err # "failed to create request") => j.nreq = 1

\* Retry 3 times without wait condition and a response with status 500:
\* the status assertion fails after the one request
C32_Witness ==
    \E i \in 1..N :
        /\ ~HasWait(TestAt(i))
        /\ TestAt(i).RetryMax = 3
        /\ job[i].pc = "ret"
        /\ job[i].err = "status assertion failed"
        /\ job[i].nreq = 1

(***************************************************************************)
(* A test block with a wait bullet and a Retry bullet, parsed by           *)
(* parseTestBlock and run by runTest.                                      *)
(***************************************************************************)
\* the counts written in the Retry bullet: 0 to MaxRetry
RetryCounts == {<<DigitChars[n + 1]>> : n \in 0..MaxRetry}

\* the delays written in the Retry bullet
RetryDelays == {<<"2", "s">>, <<"5", "0", "0", "m", "s">>}

\* GET /p, the wait bullet and, when a count is given, the Retry bullet
RetryBlock(count, every) ==
    JoinLines(<<<<"G", "E", "T", " ", "/", "p">>, <<"-", " ", "W", "a", "i", "t", " ", "u", "n", "t", "i", "l", " ", "s", "t", "a", "t", "u", "s", " ", "i", "s", " ", "2", "0", "0">>>>
              \o (IF count = <<>> THEN <<>>
                  ELSE <<<<"-", " ", "R", "e", "t", "r", "y", " ">> \o count \o <<" ", "t", "i", "m", "e", "s", " ", "e", "v", "e", "r", "y", " ">> \o every>>))

InitRetry ==
    \E count \in {<<>>} \cup RetryCounts, every \in RetryDelays :
        /\ mode = "block"
        /\ parseIn = [fn |-> "block", count |-> count, every |-> every,
                      content |-> RetryBlock(count, every),
                      defaults |-> [Root |-> <<"h">>, Headers |-> EmptyMap]]
        /\ parseOut = NoOutput
        /\ testFiles = <<>>
        /\ maxWorkers = 1
        /\ job = <<>>
        /\ cur = 1
        /\ sem = 0
        /\ results = <<>>
        /\ writes = <<>>
        /\ passed = 0
        /\ failed = 0
        /\ printed = <<>>
        /\ mainpc = "run"
        /\ timing = NoTiming(0)
        /\ quiet = FALSE

\* the state of a call of runTest on a parsed test, at the head of its loop
\* with an empty store
JobOf(test) ==
    [pc |-> "loop", attempt |-> 0, nreq |-> 0, sleeps |-> 0, slept |-> 0, firstSat |-> 0,
     partial |-> 0, evals |-> <<>>,
     err |-> "none", validated |-> NoResp,
     URL |-> test.URL, Body |-> test.Body, Headers |-> test.Headers,
     vars |-> EmptyMap, vars0 |-> EmptyMap, req |-> NoReq]

\* the block is parsed (parser.go:36) and runTest is called on the test
ParseBlock ==
    /\ mode = "block"
    /\ parseOut = NoOutput
    /\ LET test == parseTestBlock("t", parseIn.content, parseIn.defaults, <<>>)
       IN  /\ parseOut' = [fn |-> "block", test |-> test]
           /\ job' = <<JobOf(test)>>
    /\ UNCHANGED <<mode, testFiles, maxWorkers, cur, sem, results, writes,
                   passed, failed, printed, mainpc, parseIn, timing, quiet>>

\* one pass through the loop of runTest on the parsed test
AttemptParsed ==
    /\ mode = "block"
    /\ parseOut # NoOutput
    /\ job[1].pc = "loop"
    /\ \E out \in SchedOutcomes :
          job' = [job EXCEPT ![1] = LoopIteration(job[1], parseOut.test, out)]
    /\ UNCHANGED <<mode, testFiles, maxWorkers, cur, sem, results, writes,
                   passed, failed, printed, mainpc, parseIn, parseOut, timing, quiet>>

NextRetry == ParseBlock \/ AttemptParsed

SpecRetry == InitRetry /\ [][NextRetry]_vars

\* the block has been parsed and its test is being run or has been run
RunsParsed == mode = "block" /\ parseOut # NoOutput

\* C33: with a wait condition and the bullet Retry n times every d, for
\* every n the grammar takes, at most n requests are sent; without the
\* bullet at most 10 are, one second apart
C33_AtMostNRequests ==
    RunsParsed =>
        /\ parseOut.test.WaitForStatus = 200
        /\ IF parseIn.count # <<>>
           THEN job[1].nreq <= DigitsVal(parseIn.count)
           ELSE /\ job[1].nreq <= 10
                /\ job[1].slept = job[1].sleeps * 1000

\* C33 (as the code has it): as above for the counts from 1 on; with the
\* count 0 the limit is 10, as without the bullet
C33_AtMostNRequestsFromOne ==
    RunsParsed =>
        /\ parseOut.test.WaitForStatus = 200
        /\ IF parseIn.count # <<>> /\ DigitsVal(parseIn.count) >= 1
           THEN /\ job[1].nreq <= DigitsVal(parseIn.count)
                /\ job[1].slept = job[1].sleeps * ParseDuration(parseIn.every).d
           ELSE job[1].nreq <= 10
        /\ parseIn.count = <<>> => job[1].slept = job[1].sleeps * 1000

\* Retry 0 times: ten requests are sent before the wait times out
C33_TenRequestsAtCountZero ==
    /\ RunsParsed
    /\ parseIn.count = <<"0">>
    /\ job[1].pc = "ret"
    /\ job[1].nreq = 10
    /\ job[1].err = "wait for status failed"

\* no Retry bullet: ten requests, nine seconds slept
C33_TenRequestsByDefault ==
    /\ RunsParsed
    /\ parseIn.count = <<>>
    /\ job[1].pc = "ret"
    /\ job[1].nreq = 10
    /\ job[1].slept = 9000

(***************************************************************************)
(* Termination of runTestsParallel: the runner on no job, on fewer jobs    *)
(* than workers and on more, every goroutine and the runner itself taking  *)
(* its next step when it can.                                              *)
(***************************************************************************)
InitParFair ==
    \E tf \in {<<>>} \cup FileLists(QuietCatalogue, MaxFiles, MaxTests, MaxJobs),
       k \in 1..MaxWorkers :
        InitRunner("par", tf, k, FALSE)

\* the Go scheduler runs every goroutine that can take a step, and every
\* call of runTest returns
SpecParFair == InitParFair /\ [][NextPar]_vars /\ WF_vars(NextPar)

\* the jobs between their acquire and their release
HoldsPermit(i) == job[i].pc \in {"loop", "ret", "rec"}

\* runTestsParallel has returned with every job run and counted and every
\* permit back
ParallelReturned ==
    /\ mainpc = "done"
    /\ \A i \in 1..N : job[i].pc = "done" /\ job[i].attempt >= 1
    /\ Len(writes) = N
    /\ passed + failed = N
    /\ sem = 0

\* C34: runTestsParallel returns, whatever the number of jobs and of
\* workers and whether the tests pass or fail: the permits taken are always
\* those of the jobs inside runTest, one each and never more than K, a job
\* that has released does not acquire again, and in the end the runner has
\* returned with passed + failed = N and no permit held
C34_ParallelTerminates ==
    /\ [](sem = Cardinality({i \in 1..N : HoldsPermit(i)}) /\ sem <= maxWorkers)
    /\ [][\A i \in 1..N : job[i].pc = "done" => job'[i].pc = "done"]_vars
    /\ <>ParallelReturned

\* two jobs on one worker, the first test failed: both ran and the runner
\* returned
C34_Witness ==
    /\ mode = "par"
    /\ maxWorkers = 1
    /\ N = 2
    /\ job[1].err # "none"
    /\ writes = <<<<1, 1>>, <<2, 2>>>>
    /\ ParallelReturned

\* no job at all: the runner returns with nothing counted
C34_NoJob ==
    /\ mode = "par"
    /\ N = 0
    /\ ParallelReturned

(***************************************************************************)
(* Termination of runTest: one direct call, every HTTP call returning.     *)
(***************************************************************************)
\* the largest Retry count of the tests with a field wait in the fair runs
MaxFairRetry == 2

\* the tests of the fair runs: every test without a field wait, and the
\* tests with a field wait whose Retry directive gives 1..MaxFairRetry
FairCatalogue ==
    {id \in RunCatalogue :
        TestOf(id).WaitForField # <<>> => id.m \in 1..MaxFairRetry}

InitRunFair == \E id \in FairCatalogue : InitWith("run", <<<<id>>>>, 1)

\* every call of client.Do and io.ReadAll returns, so the loop takes its
\* next pass
SpecRunFair == InitRunFair /\ [][NextRun]_vars /\ WF_vars(NextRun)

\* a pass through the loop that ends at the head of the loop again
LoopsAgain == job[1].pc = "loop" /\ job'[1].pc = "loop"

\* C35: runTest returns. Every pass through the loop adds one to attempt
\* and sends at most one request, every request belongs to a pass; the
\* loop is entered again only when the test has a wait condition that no
\* response has met so far and attempt is below the max attempts; every
\* other pass returns
C35_RunTestTerminates ==
    /\ [][job[1].pc = "loop" =>
            /\ job'[1].attempt = job[1].attempt + 1
            /\ job'[1].nreq \in {job[1].nreq, job[1].nreq + 1}
            /\ job'[1].nreq = job[1].nreq + 1 \/ job'[1].err = "failed to create request"
            /\ job'[1].pc \in {"loop", "ret"}]_vars
    /\ [][LoopsAgain =>
            /\ HasWait(TestAt(1))
            /\ job'[1].firstSat = 0
            /\ job'[1].validated = NoResp
            /\ job'[1].err = "none"
            /\ job'[1].attempt < RetryMaxOf(TestAt(1))]_vars
    /\ [](job[1].attempt <= RetryMaxOf(TestAt(1)))
    /\ <>Returned(job[1])

\* a wait for a field that no response met: the call returned at the max
\* attempts of its Retry bullet
C35_Witness ==
    /\ mode = "run"
    /\ TestAt(1).WaitForField # <<>>
    /\ TestAt(1).WaitForStatus = 0
    /\ TestAt(1).RetryMax = 2
    /\ job[1].pc = "ret"
    /\ job[1].err = "wait for field failed"
    /\ job[1].attempt = 2
    /\ job[1].nreq = 2


(***************************************************************************)
(* The duration assertion: Duration less than <dur>.                       *)
(***************************************************************************)
\* the largest number written in a duration text
MaxLimit == 3

\* parseDuration: time.ParseDuration of the trimmed text (http.go:349-352)
parseDuration(s) == ParseDuration(TrimSpace(s))

\* the "duration" case of validateAssertion (http.go:234-241), durations
\* in milliseconds
validateDuration(assertion, duration) ==
    LET maxDuration == parseDuration(assertion.Value)
    IN  IF ~maxDuration.ok THEN "invalid duration in assertion"
        ELSE IF duration > maxDuration.d THEN "duration assertion failed"
        ELSE "ok"

\* the texts after `Duration less than `: a number and a unit, one of them
\* with blanks around it, and a text that is no duration
DurationTexts ==
    {<<DigitChars[n + 1]>> \o unit :
        n \in 0..MaxLimit, unit \in {<<"m", "s">>, <<"s">>}}
    \cup {<<" ", "2", "m", "s", " ">>, <<"a", "b", "c">>}

\* the measured durations: around every limit of DurationTexts
MeasuredDurations ==
    0..(MaxLimit + 1)
    \cup {1000 * n + d : n \in 1..MaxLimit, d \in {-1, 0, 1}}

InitDuration ==
    \E text \in DurationTexts, d \in MeasuredDurations :
        InitParse("validateDuration",
                  [assertion |-> Assertion("duration", <<>>, text), duration |-> d])

\* validateAssertion(assertion, resp.StatusCode, respBody, respJSON,
\* duration) on a duration assertion (http.go:146)
CallValidateDuration ==
    /\ mode = "parse"
    /\ parseIn.fn = "validateDuration"
    /\ parseOut = NoOutput
    /\ parseOut' = [fn |-> "validateDuration",
                    err |-> validateDuration(parseIn.assertion, parseIn.duration)]
    /\ UNCHANGED <<mode, testFiles, maxWorkers, job, cur, sem, results, writes,
                   passed, failed, printed, mainpc, parseIn, timing, quiet>>

SpecDuration == InitDuration /\ [][CallValidateDuration]_vars

DurationChecked ==
    /\ mode = "parse"
    /\ parseOut.fn = "validateDuration"
    /\ parseDuration(parseIn.assertion.Value).ok

Limit == parseDuration(parseIn.assertion.Value).d

\* C36: a duration assertion passes only when the measured duration is
\* strictly less than the limit written; a measured duration equal to or
\* greater than the limit fails it
C36_PassesOnlyBelowLimit ==
    DurationChecked =>
        /\ parseOut.err = "ok" => parseIn.duration < Limit
        /\ parseIn.duration >= Limit => parseOut.err = "duration assertion failed"

\* what the code does: the assertion passes exactly when the measured
\* duration is at most the limit
C36_PassesUpToLimit ==
    DurationChecked =>
        /\ parseOut.err = "ok" <=> parseIn.duration <= Limit
        /\ parseOut.err = "duration assertion failed" <=> parseIn.duration > Limit

\* a measured duration equal to the limit passes
C36_PassesAtLimit ==
    /\ DurationChecked
    /\ parseIn.duration = Limit
    /\ Limit > 0
    /\ parseOut.err = "ok"

\* a measured duration above the limit fails
C36_FailsAboveLimit ==
    /\ DurationChecked
    /\ parseIn.duration = Limit + 1
    /\ parseOut.err = "duration assertion failed"


(***************************************************************************)
(* The store of one sequential file run.                                   *)
(***************************************************************************)
\* tests with one and with two save directives
StoreCatalogue ==
    {[n |-> nm, m |-> 0] : nm \in {"saveId", "save2"}}

\* the outcomes scripted for them: a response with json.id and json.x, two
\* with json.id alone, the non-JSON 500
StoreOutcomes ==
    {o \in Outcomes :
        /\ o.kind = "response"
        /\ \/ o.resp.status = 200
           \/ o.resp.json = NilJSON}

InitStore ==
    \E tf \in FileLists(StoreCatalogue, MaxFiles, MaxTests, MaxSeqTests) :
        InitWith("seq", tf, 1)

\* one pass through the loop body of runTest for job i (http.go:77-162)
AttemptStore(i) ==
    /\ mode = "seq"
    /\ job[i].pc = "loop"
    /\ \E out \in StoreOutcomes :
          job' = [job EXCEPT ![i] = LoopIteration(job[i], TestAt(i), out)]
    /\ UNCHANGED <<mode, testFiles, maxWorkers, cur, sem, results, writes,
                   passed, failed, printed, mainpc, parseIn, parseOut, timing, quiet>>

NextStore == SeqStart \/ (\E i \in 1..N : AttemptStore(i)) \/ SeqFinish

SpecStore == InitStore /\ [][NextStore]_vars

\* what test a has written into the store, counted only when the test
\* completed Save
SavedBy(a) ==
    IF Returned(job[a]) /\ job[a].err = "none" THEN StoredBy(a) ELSE <<>>

SavedAll == [a \in 1..N |-> SavedBy(a)]

\* the names written by the tests up to b in b's file (st: the writes
\* counted for every test)
NamesUpTo(st, b) ==
    NamesBefore(st, b) \cup {st[b][k].Variable : k \in 1..Len(st[b])}

\* the value most recently written under v by the tests up to b in b's file
LatestUpTo(st, b, v) ==
    LET ws == {a \in 1..b :
                  SameFile(a, b) /\ \E k \in 1..Len(st[a]) : st[a][k].Variable = v}
        a == CHOOSE x \in ws : \A y \in ws : y <= x
        ks == {k \in 1..Len(st[a]) : st[a][k].Variable = v}
        k == CHOOSE x \in ks : \A y \in ks : y <= x
    IN  st[a][k].Value

\* the store every returned test leaves holds the names counted in st for
\* the tests of its file so far, each with the latest value, and every name
\* the test was handed
StoreHolds(st) ==
    \A i \in 1..N :
        Returned(job[i]) =>
            /\ DOMAIN job[i].vars = NamesUpTo(st, i)
            /\ \A v \in NamesUpTo(st, i) : job[i].vars[v] = LatestUpTo(st, i, v)
            /\ DOMAIN job[i].vars0 \subseteq DOMAIN job[i].vars

\* C37: within one sequential file run the store only grows or overwrites:
\* the stored names are the destination names of the save directives of
\* the tests that completed Save, each with the value of the latest such
\* test that saved it, and no test removes a name
C37_StoreOfCompletedSaves ==
    mode = "seq" => StoreHolds(SavedAll)

\* what the code does: the stored names are those of the directives that
\* extracted, of the tests that completed Save and of those whose Save
\* failed at a later directive, and no step of a test removes a name
C37_StoreOfExtractedSaves ==
    /\ [](mode = "seq" => StoreHolds(StoredAll))
    /\ [][\A i \in 1..N :
              job[i].pc # "idle" => DOMAIN job[i].vars \subseteq DOMAIN job'[i].vars]_vars

\* a test whose second directive failed left the name of the first in the
\* store, and the next test of the file was handed it
C37_PartialSaveStored ==
    /\ mode = "seq"
    /\ \E i \in 2..N :
          /\ SameFile(i - 1, i)
          /\ job[i - 1].err = "save field failed"
          /\ SavedBy(i - 1) = <<>>
          /\ job[i].pc # "idle"
          /\ job[i].vars0 = (s_id :> VFloat(7))

\* two tests saved id, the second overwrote the value of the first, and x
\* saved by the first is still there
C37_Overwritten ==
    /\ mode = "seq"
    /\ \E i \in 2..N :
          /\ SameFile(i - 1, i)
          /\ job[i - 1].err = "none"
          /\ job[i].err = "none"
          /\ Returned(job[i])
          /\ job[i].vars0 = (s_id :> VStr(s_7)) @@ (s_x :> VBool(TRUE))
          /\ job[i].vars = (s_id :> VFloat(8)) @@ (s_x :> VBool(TRUE))


(***************************************************************************)
(* interpolateVariables and the order in which the store is visited        *)
(* (http.go:22-25).                                                        *)
(***************************************************************************)
\* the largest number of pieces of a text
MaxOrderPieces == 3

\* the pieces of the texts: the placeholders of x and y, a plain character,
\* an opening and a closing pair of braces
OrderPieces == {Placeholder(s_x), Placeholder(s_y), <<"a">>, <<"{", "{">>, <<"}", "}">>}

\* the values stored: a JSON number, a string that reads as the name y and
\* a string that reads as the placeholder of y
OrderValues == {VFloat(7), VStr(s_y), VStr(Placeholder(s_y))}

\* the stores: nil, empty, and every map over names among x and y
OrderStores ==
    {NilStore}
    \cup {StoreOf(m) : m \in UNION {[D -> OrderValues] : D \in SUBSET {s_x, s_y}}}

InitOrder ==
    \E ps \in SeqsUpTo(OrderPieces, MaxOrderPieces), st \in OrderStores :
        InitParse("interpolateVariables", [s |-> Concat(ps), vars |-> st, pieces |-> ps])

SpecOrder == InitOrder /\ [][CallInterpolate]_vars

\* no value's string form contains the placeholder of a stored name
NoStoredPlaceholder(m) ==
    \A n \in DOMAIN m : \A k \in DOMAIN m :
        ~Contains(Sprintf(m[n]), Placeholder(k))

\* the result returned is the result of every visiting order
OneResult == InterpolateCall(parseIn.s, parseIn.vars) = {parseOut.result}

\* C38: for a text and a store in which no value's string form contains
\* the placeholder of a stored name, every visiting order of the store
\* yields the same result
C38_OrderIndependent ==
    (Interpolated /\ NoStoredPlaceholder(parseIn.vars.m)) => OneResult

\* no value's string form contains a brace
NoBraceValue(m) ==
    \A n \in DOMAIN m :
        \A i \in 1..Len(Sprintf(m[n])) : Sprintf(m[n])[i] \notin {"{", "}"}

\* the text is made of whole placeholders and other characters, no brace
\* outside a placeholder
WholePlaceholders(ps) ==
    \A i \in 1..Len(ps) : ps[i] \notin {<<"{", "{">>, <<"}", "}">>}

\* what the code does: every visiting order yields the same result when no
\* value holds a brace and the text has no brace outside a placeholder
C38_OrderIndependentOnWholePlaceholders ==
    (/\ Interpolated
     /\ NoBraceValue(parseIn.vars.m)
     /\ WholePlaceholders(parseIn.pieces)) => OneResult

\* {{x}} with x = "{{y}}" and y = 7: 7 when x is visited first, {{y}} when
\* y is visited first
C38_OrderMatters ==
    /\ Interpolated
    /\ parseIn.s = Placeholder(s_x)
    /\ ~parseIn.vars.isNil
    /\ parseIn.vars.m = (s_x :> VStr(Placeholder(s_y))) @@ (s_y :> VFloat(7))
    /\ InterpolateCall(parseIn.s, parseIn.vars) = {s_7, Placeholder(s_y)}
    /\ parseOut.result = Placeholder(s_y)

\* {{{{x}}}} with x = "y" and y = 7: no value holds a placeholder, yet the
\* result is 7 when x is visited first and {{y}} when y is visited first
C38_OrderMattersOnPlainValues ==
    /\ Interpolated
    /\ parseIn.pieces = <<<<"{", "{">>, Placeholder(s_x), <<"}", "}">>>>
    /\ ~parseIn.vars.isNil
    /\ parseIn.vars.m = (s_x :> VStr(s_y)) @@ (s_y :> VFloat(7))
    /\ NoStoredPlaceholder(parseIn.vars.m)
    /\ InterpolateCall(parseIn.s, parseIn.vars) = {s_7, Placeholder(s_y)}
    /\ parseOut.result = s_7

====
